---- MODULE Spec2Model ----
(***************************************************************************)
(* Model of smart_sync.py (baseline store and diff engine) together with   *)
(* the parsers it calls, and of the parsers of generate_prompt_packages.py.*)
(*                                                                         *)
(* Representation.                                                         *)
(*   - A Python str is a sequence of one-character strings, so that        *)
(*     strip(), lower(), upper(), "in" and len() are computed, not assumed.*)
(*   - A Python dict is a sequence of [k, v] entries in insertion order;   *)
(*     assigning an existing key keeps its position (DictPut).             *)
(*   - None / Some(x) is <<>> / <<x>>.                                     *)
(*   - A CSV file is [headers, rows], each row a sequence of cells aligned *)
(*     with the headers (what csv.DictReader hands to parse_matrix).       *)
(*   - A discovery document is a sequence of lexical items: markers (the   *)
(*     literal instrument headings the regular expressions look for) and   *)
(*     runs of ordinary text.                                              *)
(*   - Wall-clock values (created, last_updated, captured_at, timestamp)   *)
(*     are not carried: no branch of the code reads them.                  *)
(*   - file_hash is collision-free on the contents that occur, so a digest *)
(*     is represented by the content it was computed from.                 *)
(***************************************************************************)
EXTENDS Integers, Sequences, FiniteSets, TLC

-----------------------------------------------------------------------------
(* Bounds of the model *)

MaxEntries == 3
MaxEdits == 2
MaxHist == 3

-----------------------------------------------------------------------------
(* Strings *)

None == <<>>
Some(x) == <<x>>

UpperAlpha == <<"A", "B", "C", "D", "E", "F", "G", "H", "I", "J", "K", "L", "M", "N", "O", "P", "Q", "R", "S", "T", "U", "V", "W", "X", "Y", "Z">>
LowerAlpha == <<"a", "b", "c", "d", "e", "f", "g", "h", "i", "j", "k", "l", "m", "n", "o", "p", "q", "r", "s", "t", "u", "v", "w", "x", "y", "z">>
Digits == {"0", "1", "2", "3", "4", "5", "6", "7", "8", "9"}

IsSpace(c) == c \in {" ", "\t", "\n", "\r"}

LowerMap ==
    [c \in {UpperAlpha[i] : i \in 1..Len(UpperAlpha)} |->
        LowerAlpha[CHOOSE i \in 1..Len(UpperAlpha) : UpperAlpha[i] = c]]

UpperMap ==
    [c \in {LowerAlpha[i] : i \in 1..Len(LowerAlpha)} |->
        UpperAlpha[CHOOSE i \in 1..Len(LowerAlpha) : LowerAlpha[i] = c]]

LowerChar(c) == IF c \in DOMAIN LowerMap THEN LowerMap[c] ELSE c

UpperChar(c) == IF c \in DOMAIN UpperMap THEN UpperMap[c] ELSE c

Lower(s) == [i \in 1..Len(s) |-> LowerChar(s[i])]
Upper(s) == [i \in 1..Len(s) |-> UpperChar(s[i])]

RECURSIVE LStrip(_)
LStrip(s) == IF s # <<>> /\ IsSpace(Head(s)) THEN LStrip(Tail(s)) ELSE s

RECURSIVE RStrip(_)
RStrip(s) ==
    IF s # <<>> /\ IsSpace(s[Len(s)]) THEN RStrip(SubSeq(s, 1, Len(s) - 1)) ELSE s

Strip(s) == RStrip(LStrip(s))

Contains(s, c) == \E i \in 1..Len(s) : s[i] = c

\* index of the first occurrence of c in s (s contains c)
IndexOf(s, c) == CHOOSE i \in 1..Len(s) : s[i] = c /\ \A j \in 1..(i - 1) : s[j] # c

RECURSIVE Concat(_)
Concat(ss) == IF ss = <<>> THEN <<>> ELSE Head(ss) \o Concat(Tail(ss))

-----------------------------------------------------------------------------
(* Dictionaries (insertion ordered) *)

DictKeys(d) == [i \in 1..Len(d) |-> d[i].k]
DictHas(d, key) == \E i \in 1..Len(d) : d[i].k = key
DictIdx(d, key) == CHOOSE i \in 1..Len(d) : d[i].k = key
DictGet(d, key) == d[DictIdx(d, key)].v
DictPut(d, key, val) ==
    IF DictHas(d, key)
    THEN [d EXCEPT ![DictIdx(d, key)] = [k |-> key, v |-> val]]
    ELSE Append(d, [k |-> key, v |-> val])

SeqToSet(s) == {s[i] : i \in 1..Len(s)}

-----------------------------------------------------------------------------
(* Column roles and cells *)

RequestNames ==
    { <<"r", "e", "q", "u", "e", "s", "t">>,
      <<"r", "e", "q">>,
      <<"n", "o">>,
      <<"n", "o", ".">>,
      <<"n", "u", "m", "b", "e", "r">>,
      <<"r", "e", "q", "u", "e", "s", "t", " ", "n", "o">>,
      <<"r", "e", "q", "u", "e", "s", "t", " ", "n", "o", ".">>,
      <<"i", "n", "t", "e", "r", "r", "o", "g", "a", "t", "o", "r", "y">>,
      <<"r", "o", "g">>,
      <<"r", "f", "a">>,
      <<"r", "p", "d">> }

NotesNames ==
    { <<"n", "o", "t", "e", "s">>,
      <<"c", "o", "m", "m", "e", "n", "t", "s">>,
      <<"n", "o", "t", "e">>,
      <<"c", "o", "m", "m", "e", "n", "t">>,
      <<"r", "e", "m", "a", "r", "k", "s">> }

AffirmativeTokens ==
    { <<"X">>, <<"Y", "E", "S">>, <<"Y">>, <<"1">>, <<"T", "R", "U", "E">> }

IsRequestColumn(col) == col # <<>> /\ Lower(Strip(col)) \in RequestNames

IsNotesColumn(col) == col # <<>> /\ Lower(Strip(col)) \in NotesNames

\* A cell interpreter that compares the markers without folding case.
ParseMatrixCellCaseSensitive(cell) ==
    IF cell = <<>> THEN [use |-> FALSE, notes |-> None]
    ELSE LET val == Strip(cell) IN
         IF val = <<>> THEN [use |-> FALSE, notes |-> None]
         ELSE IF Contains(val, ";")
              THEN [use |-> TRUE,
                    notes |-> Some(Strip(SubSeq(val, IndexOf(val, ";") + 1, Len(val))))]
              ELSE IF val \in AffirmativeTokens
                   THEN [use |-> TRUE, notes |-> None]
                   ELSE [use |-> TRUE, notes |-> Some(val)]

\* smart_sync.parse_matrix_cell: [use, notes]
ParseMatrixCell(cell) ==
    IF cell = <<>> THEN [use |-> FALSE, notes |-> None]
    ELSE LET val == Strip(cell) IN
         IF val = <<>> THEN [use |-> FALSE, notes |-> None]
         ELSE IF Contains(val, ";")
              THEN [use |-> TRUE,
                    notes |-> Some(Strip(SubSeq(val, IndexOf(val, ";") + 1, Len(val))))]
              ELSE IF Upper(val) \in AffirmativeTokens
                   THEN [use |-> TRUE, notes |-> None]
                   ELSE [use |-> TRUE, notes |-> Some(val)]

-----------------------------------------------------------------------------
(* Matrix loader of smart_sync *)

\* Last header classified as request column, None when there is none.
RequestCol(headers) ==
    LET idx == {i \in 1..Len(headers) : IsRequestColumn(headers[i])}
    IN IF idx = {} THEN None
       ELSE Some(headers[CHOOSE i \in idx : \A j \in idx : j <= i])

\* Last header classified as notes column among those that are not request columns.
NotesCol(headers) ==
    LET idx == {i \in 1..Len(headers) :
                  ~IsRequestColumn(headers[i]) /\ IsNotesColumn(headers[i])}
    IN IF idx = {} THEN None
       ELSE Some(headers[CHOOSE i \in idx : \A j \in idx : j <= i])

\* Every other header, in header order, under its own name.
ObjectionCols(headers) ==
    SelectSeq(headers, LAMBDA h : ~IsRequestColumn(h) /\ ~IsNotesColumn(h))

\* row.get(col): DictReader keys a row by header name; of two equal headers
\* the later column's cell is the one kept.
RowGet(headers, row, col) ==
    LET idx == {i \in 1..Len(headers) : headers[i] = col}
    IN row[CHOOSE i \in idx : \A j \in idx : j <= i]

RowObjections(headers, row, objection_cols) ==
    LET used == SelectSeq(objection_cols,
                          LAMBDA c : ParseMatrixCell(RowGet(headers, row, c)).use)
    IN [i \in 1..Len(used) |->
          [name |-> used[i],
           notes |-> ParseMatrixCell(RowGet(headers, row, used[i])).notes]]

\* The row loop of parse_matrix; cols = [request, notes, objections].
RECURSIVE ParseRows(_, _, _, _)
ParseRows(headers, rows, cols, result) ==
    IF rows = <<>> THEN result
    ELSE LET row == Head(rows)
             req_num == Strip(RowGet(headers, row, cols.request[1]))
             notes_val == IF cols.notes # None
                          THEN Strip(RowGet(headers, row, cols.notes[1]))
                          ELSE <<>>
         IN IF req_num = <<>>
            THEN ParseRows(headers, Tail(rows), cols, result)
            ELSE ParseRows(headers, Tail(rows), cols,
                           DictPut(result, req_num,
                                   [objections |-> RowObjections(headers, row, cols.objections),
                                    notes |-> notes_val]))

\* smart_sync.parse_matrix: dict req_num -> [objections, notes]
ParseMatrix(m) ==
    LET cols == [request |-> RequestCol(m.headers),
                 notes |-> NotesCol(m.headers),
                 objections |-> ObjectionCols(m.headers)]
    IN IF cols.request = None THEN <<>>
       ELSE ParseRows(m.headers, m.rows, cols, <<>>)

-----------------------------------------------------------------------------
(* Column names, cells and matrix loader of generate_prompt_packages *)

\* ALIAS_TO_CANONICAL: alias.lower().strip() -> canonical name
AliasToCanonical ==
    << [k |-> <<"r", "e", "l", "e", "v", "a", "n", "c", "e">>,
        v |-> <<"R", "e", "l", "e", "v", "a", "n", "c", "e">>],
       [k |-> <<"r", "e", "l", "e", "v", "a", "n", "t">>,
        v |-> <<"R", "e", "l", "e", "v", "a", "n", "c", "e">>],
       [k |-> <<"i", "r", "r", "e", "l", "e", "v", "a", "n", "t">>,
        v |-> <<"R", "e", "l", "e", "v", "a", "n", "c", "e">>],
       [k |-> <<"c", "o", "m", "p", "o", "u", "n", "d">>,
        v |-> <<"C", "o", "m", "p", "o", "u", "n", "d">>],
       [k |-> <<"v", "a", "g", "u", "e">>,
        v |-> <<"V", "a", "g", "u", "e">>],
       [k |-> <<"v", "a", "g", "u", "e", " ", "&", " ", "a", "m", "b", "i", "g", "u", "o", "u", "s">>,
        v |-> <<"V", "a", "g", "u", "e">>],
       [k |-> <<"v", "a", "g", "u", "e", " ", "a", "n", "d", " ", "a", "m", "b", "i", "g", "u", "o", "u", "s">>,
        v |-> <<"V", "a", "g", "u", "e">>],
       [k |-> <<"v", "a", "g", "u", "e", "/", "a", "m", "b", "i", "g", "u", "o", "u", "s">>,
        v |-> <<"V", "a", "g", "u", "e">>],
       [k |-> <<"a", "m", "b", "i", "g", "u", "o", "u", "s">>,
        v |-> <<"V", "a", "g", "u", "e">>],
       [k |-> <<"v", "a", "g", "u", "e", ",", " ", "a", "m", "b", "i", "g", "u", "o", "u", "s">>,
        v |-> <<"V", "a", "g", "u", "e">>],
       [k |-> <<"v", "a", "g", "u", "e", " ", "a", "m", "b", "i", "g", "u", "o", "u", "s">>,
        v |-> <<"V", "a", "g", "u", "e">>],
       [k |-> <<"s", "p", "e", "c", "u", "l", "a", "t", "i", "o", "n">>,
        v |-> <<"S", "p", "e", "c", "u", "l", "a", "t", "i", "o", "n">>],
       [k |-> <<"s", "p", "e", "c", "u", "l", "a", "t", "i", "v", "e">>,
        v |-> <<"S", "p", "e", "c", "u", "l", "a", "t", "i", "o", "n">>],
       [k |-> <<"c", "a", "l", "l", "s", " ", "f", "o", "r", " ", "s", "p", "e", "c", "u", "l", "a", "t", "i", "o", "n">>,
        v |-> <<"S", "p", "e", "c", "u", "l", "a", "t", "i", "o", "n">>],
       [k |-> <<"a", "s", "s", "u", "m", "e", "s", " ", "f", "a", "c", "t", "s">>,
        v |-> <<"A", "s", "s", "u", "m", "e", "s", " ", "F", "a", "c", "t", "s">>],
       [k |-> <<"a", "s", "s", "u", "m", "e", "s">>,
        v |-> <<"A", "s", "s", "u", "m", "e", "s", " ", "F", "a", "c", "t", "s">>],
       [k |-> <<"a", "s", "s", "u", "m", "p", "t", "i", "o", "n">>,
        v |-> <<"A", "s", "s", "u", "m", "e", "s", " ", "F", "a", "c", "t", "s">>],
       [k |-> <<"a", "s", "s", "u", "m", "e", "s", " ", "f", "a", "c", "t", "s", " ", "n", "o", "t", " ", "i", "n", " ", "e", "v", "i", "d", "e", "n", "c", "e">>,
        v |-> <<"A", "s", "s", "u", "m", "e", "s", " ", "F", "a", "c", "t", "s">>],
       [k |-> <<"e", "x", "p", "e", "r", "t", " ", "o", "p", "i", "n", "i", "o", "n">>,
        v |-> <<"E", "x", "p", "e", "r", "t", " ", "O", "p", "i", "n", "i", "o", "n">>],
       [k |-> <<"e", "x", "p", "e", "r", "t">>,
        v |-> <<"E", "x", "p", "e", "r", "t", " ", "O", "p", "i", "n", "i", "o", "n">>],
       [k |-> <<"c", "a", "l", "l", "s", " ", "f", "o", "r", " ", "e", "x", "p", "e", "r", "t">>,
        v |-> <<"E", "x", "p", "e", "r", "t", " ", "O", "p", "i", "n", "i", "o", "n">>],
       [k |-> <<"l", "e", "g", "a", "l", " ", "c", "o", "n", "c", "l", "u", "s", "i", "o", "n">>,
        v |-> <<"L", "e", "g", "a", "l", " ", "C", "o", "n", "c", "l", "u", "s", "i", "o", "n">>],
       [k |-> <<"l", "e", "g", "a", "l">>,
        v |-> <<"L", "e", "g", "a", "l", " ", "C", "o", "n", "c", "l", "u", "s", "i", "o", "n">>],
       [k |-> <<"c", "o", "n", "c", "l", "u", "s", "i", "o", "n">>,
        v |-> <<"L", "e", "g", "a", "l", " ", "C", "o", "n", "c", "l", "u", "s", "i", "o", "n">>],
       [k |-> <<"s", "e", "e", "k", "s", " ", "l", "e", "g", "a", "l", " ", "c", "o", "n", "c", "l", "u", "s", "i", "o", "n">>,
        v |-> <<"L", "e", "g", "a", "l", " ", "C", "o", "n", "c", "l", "u", "s", "i", "o", "n">>],
       [k |-> <<"o", "v", "e", "r", "b", "r", "o", "a", "d">>,
        v |-> <<"O", "v", "e", "r", "b", "r", "o", "a", "d">>],
       [k |-> <<"o", "v", "e", "r", "b", "r", "o", "a", "d", " ", "a", "n", "d", " ", "u", "n", "d", "u", "l", "y", " ", "b", "u", "r", "d", "e", "n", "s", "o", "m", "e">>,
        v |-> <<"O", "v", "e", "r", "b", "r", "o", "a", "d">>],
       [k |-> <<"o", "v", "e", "r", "b", "r", "o", "a", "d", "-", "s", "c", "o", "p", "e">>,
        v |-> <<"O", "v", "e", "r", "b", "r", "o", "a", "d">>],
       [k |-> <<"o", "v", "e", "r", "b", "r", "o", "a", "d", " ", "(", "s", "c", "o", "p", "e", ")">>,
        v |-> <<"O", "v", "e", "r", "b", "r", "o", "a", "d">>],
       [k |-> <<"s", "c", "o", "p", "e">>,
        v |-> <<"O", "v", "e", "r", "b", "r", "o", "a", "d">>],
       [k |-> <<"d", "u", "p", "l", "i", "c", "a", "t", "i", "v", "e">>,
        v |-> <<"D", "u", "p", "l", "i", "c", "a", "t", "i", "v", "e">>],
       [k |-> <<"d", "u", "p", "l", "i", "c", "a", "t", "e">>,
        v |-> <<"D", "u", "p", "l", "i", "c", "a", "t", "i", "v", "e">>],
       [k |-> <<"d", "u", "p", "l", "i", "c", "a", "t", "i", "v", "e", " ", "a", "n", "d", " ", "h", "a", "r", "a", "s", "s", "i", "n", "g">>,
        v |-> <<"D", "u", "p", "l", "i", "c", "a", "t", "i", "v", "e">>],
       [k |-> <<"e", "s", "i", " ", "b", "u", "r", "d", "e", "n">>,
        v |-> <<"E", "S", "I", "-", "B", "u", "r", "d", "e", "n">>],
       [k |-> <<"e", "s", "i", "-", "b", "u", "r", "d", "e", "n">>,
        v |-> <<"E", "S", "I", "-", "B", "u", "r", "d", "e", "n">>],
       [k |-> <<"e", "s", "i">>,
        v |-> <<"E", "S", "I", "-", "B", "u", "r", "d", "e", "n">>],
       [k |-> <<"u", "n", "d", "u", "e", " ", "b", "u", "r", "d", "e", "n", " ", "(", "e", "s", "i", ")">>,
        v |-> <<"E", "S", "I", "-", "B", "u", "r", "d", "e", "n">>],
       [k |-> <<"o", "p", "p", "r", "e", "s", "s", "i", "v", "e">>,
        v |-> <<"O", "p", "p", "r", "e", "s", "s", "i", "v", "e">>],
       [k |-> <<"o", "p", "p", "r", "e", "s", "s", "i", "v", "e", " ", "a", "n", "d", " ", "h", "a", "r", "a", "s", "s", "i", "n", "g">>,
        v |-> <<"O", "p", "p", "r", "e", "s", "s", "i", "v", "e">>],
       [k |-> <<"b", "u", "r", "d", "e", "n", "s", "o", "m", "e">>,
        v |-> <<"O", "p", "p", "r", "e", "s", "s", "i", "v", "e">>],
       [k |-> <<"o", "p", "p", "r", "e", "s", "s", "i", "v", "e", "/", "b", "u", "r", "d", "e", "n", "s", "o", "m", "e">>,
        v |-> <<"O", "p", "p", "r", "e", "s", "s", "i", "v", "e">>],
       [k |-> <<"n", "o", "t", " ", "f", "u", "l", "l", "/", "c", "o", "m", "p", "l", "e", "t", "e">>,
        v |-> <<"N", "o", "t", "-", "C", "o", "m", "p", "l", "e", "t", "e">>],
       [k |-> <<"n", "o", "t", " ", "f", "u", "l", "l", " ", "a", "n", "d", " ", "c", "o", "m", "p", "l", "e", "t", "e">>,
        v |-> <<"N", "o", "t", "-", "C", "o", "m", "p", "l", "e", "t", "e">>],
       [k |-> <<"n", "o", "t", "-", "c", "o", "m", "p", "l", "e", "t", "e">>,
        v |-> <<"N", "o", "t", "-", "C", "o", "m", "p", "l", "e", "t", "e">>],
       [k |-> <<"n", "o", "t", " ", "c", "o", "m", "p", "l", "e", "t", "e">>,
        v |-> <<"N", "o", "t", "-", "C", "o", "m", "p", "l", "e", "t", "e">>],
       [k |-> <<"n", "o", "t", " ", "f", "u", "l", "l">>,
        v |-> <<"N", "o", "t", "-", "C", "o", "m", "p", "l", "e", "t", "e">>],
       [k |-> <<"a", "n", "n", "o", "y", "a", "n", "c", "e">>,
        v |-> <<"A", "n", "n", "o", "y", "a", "n", "c", "e">>],
       [k |-> <<"u", "n", "w", "a", "r", "r", "a", "n", "t", "e", "d", " ", "a", "n", "n", "o", "y", "a", "n", "c", "e">>,
        v |-> <<"A", "n", "n", "o", "y", "a", "n", "c", "e">>],
       [k |-> <<"e", "m", "b", "a", "r", "r", "a", "s", "s", "m", "e", "n", "t">>,
        v |-> <<"A", "n", "n", "o", "y", "a", "n", "c", "e">>],
       [k |-> <<"e", "q", "u", "a", "l", "l", "y", " ", "a", "v", "a", "i", "l", "a", "b", "l", "e">>,
        v |-> <<"E", "q", "u", "a", "l", "l", "y", "-", "A", "v", "a", "i", "l">>],
       [k |-> <<"e", "q", "u", "a", "l", "l", "y", " ", "a", "v", "a", "i", "l">>,
        v |-> <<"E", "q", "u", "a", "l", "l", "y", "-", "A", "v", "a", "i", "l">>],
       [k |-> <<"e", "q", "u", "a", "l", "l", "y", "-", "a", "v", "a", "i", "l">>,
        v |-> <<"E", "q", "u", "a", "l", "l", "y", "-", "A", "v", "a", "i", "l">>],
       [k |-> <<"p", "u", "b", "l", "i", "c", " ", "d", "o", "m", "a", "i", "n">>,
        v |-> <<"P", "u", "b", "l", "i", "c", "-", "D", "o", "m", "a", "i", "n">>],
       [k |-> <<"p", "u", "b", "l", "i", "c", "-", "d", "o", "m", "a", "i", "n">>,
        v |-> <<"P", "u", "b", "l", "i", "c", "-", "D", "o", "m", "a", "i", "n">>],
       [k |-> <<"p", "u", "b", "l", "i", "c", " ", "d", "o", "m", "a", "i", "n", " ", "/", " ", "a", "c", "c", "e", "s", "s">>,
        v |-> <<"P", "u", "b", "l", "i", "c", "-", "D", "o", "m", "a", "i", "n">>],
       [k |-> <<"a", "t", "t", "o", "r", "n", "e", "y", "-", "c", "l", "i", "e", "n", "t">>,
        v |-> <<"A", "t", "t", "y", "-", "C", "l", "i", "e", "n", "t">>],
       [k |-> <<"a", "t", "t", "y", "-", "c", "l", "i", "e", "n", "t">>,
        v |-> <<"A", "t", "t", "y", "-", "C", "l", "i", "e", "n", "t">>],
       [k |-> <<"a", "t", "t", "o", "r", "n", "e", "y", " ", "c", "l", "i", "e", "n", "t">>,
        v |-> <<"A", "t", "t", "y", "-", "C", "l", "i", "e", "n", "t">>],
       [k |-> <<"a", "c", " ", "p", "r", "i", "v", "i", "l", "e", "g", "e">>,
        v |-> <<"A", "t", "t", "y", "-", "C", "l", "i", "e", "n", "t">>],
       [k |-> <<"a", "-", "c">>,
        v |-> <<"A", "t", "t", "y", "-", "C", "l", "i", "e", "n", "t">>],
       [k |-> <<"w", "o", "r", "k", " ", "p", "r", "o", "d", "u", "c", "t">>,
        v |-> <<"W", "o", "r", "k", "-", "P", "r", "o", "d", "u", "c", "t">>],
       [k |-> <<"w", "o", "r", "k", "-", "p", "r", "o", "d", "u", "c", "t">>,
        v |-> <<"W", "o", "r", "k", "-", "P", "r", "o", "d", "u", "c", "t">>],
       [k |-> <<"a", "t", "t", "o", "r", "n", "e", "y", " ", "w", "o", "r", "k", " ", "p", "r", "o", "d", "u", "c", "t">>,
        v |-> <<"W", "o", "r", "k", "-", "P", "r", "o", "d", "u", "c", "t">>],
       [k |-> <<"w", "p">>,
        v |-> <<"W", "o", "r", "k", "-", "P", "r", "o", "d", "u", "c", "t">>],
       [k |-> <<"p", "r", "i", "v", "a", "c", "y", " ", "(", "r", "p", ")">>,
        v |-> <<"P", "r", "i", "v", "a", "c", "y", "-", "R", "P">>],
       [k |-> <<"p", "r", "i", "v", "a", "c", "y", "-", "r", "p">>,
        v |-> <<"P", "r", "i", "v", "a", "c", "y", "-", "R", "P">>],
       [k |-> <<"p", "r", "i", "v", "a", "c", "y", " ", "r", "p">>,
        v |-> <<"P", "r", "i", "v", "a", "c", "y", "-", "R", "P">>],
       [k |-> <<"p", "r", "i", "v", "a", "c", "y", " ", "(", "r", "e", "s", "p", "o", "n", "d", "i", "n", "g", " ", "p", "a", "r", "t", "y", ")">>,
        v |-> <<"P", "r", "i", "v", "a", "c", "y", "-", "R", "P">>],
       [k |-> <<"p", "r", "i", "v", "a", "c", "y">>,
        v |-> <<"P", "r", "i", "v", "a", "c", "y", "-", "R", "P">>],
       [k |-> <<"p", "r", "i", "v", "a", "c", "y", " ", "(", "3", "r", "d", ")">>,
        v |-> <<"P", "r", "i", "v", "a", "c", "y", "-", "3", "r", "d">>],
       [k |-> <<"p", "r", "i", "v", "a", "c", "y", "-", "3", "r", "d">>,
        v |-> <<"P", "r", "i", "v", "a", "c", "y", "-", "3", "r", "d">>],
       [k |-> <<"p", "r", "i", "v", "a", "c", "y", " ", "3", "r", "d">>,
        v |-> <<"P", "r", "i", "v", "a", "c", "y", "-", "3", "r", "d">>],
       [k |-> <<"p", "r", "i", "v", "a", "c", "y", " ", "(", "t", "h", "i", "r", "d", " ", "p", "a", "r", "t", "i", "e", "s", ")">>,
        v |-> <<"P", "r", "i", "v", "a", "c", "y", "-", "3", "r", "d">>],
       [k |-> <<"t", "h", "i", "r", "d", " ", "p", "a", "r", "t", "y", " ", "p", "r", "i", "v", "a", "c", "y">>,
        v |-> <<"P", "r", "i", "v", "a", "c", "y", "-", "3", "r", "d">>],
       [k |-> <<"j", "o", "i", "n", "t", " ", "d", "e", "f", "e", "n", "s", "e">>,
        v |-> <<"J", "o", "i", "n", "t", "-", "D", "e", "f", "e", "n", "s", "e">>],
       [k |-> <<"j", "o", "i", "n", "t", "-", "d", "e", "f", "e", "n", "s", "e">>,
        v |-> <<"J", "o", "i", "n", "t", "-", "D", "e", "f", "e", "n", "s", "e">>],
       [k |-> <<"j", "o", "i", "n", "t", " ", "d", "e", "f", "e", "n", "s", "e", " ", "p", "r", "i", "v", "i", "l", "e", "g", "e">>,
        v |-> <<"J", "o", "i", "n", "t", "-", "D", "e", "f", "e", "n", "s", "e">>],
       [k |-> <<"a", "n", "t", "i", "c", "i", "p", "a", "t", "i", "o", "n">>,
        v |-> <<"A", "n", "t", "i", "c", "i", "p", "a", "t", "i", "o", "n">>],
       [k |-> <<"a", "n", "t", "i", "c", "i", "p", "a", "t", "i", "o", "n", " ", "o", "f", " ", "l", "i", "t", "i", "g", "a", "t", "i", "o", "n">>,
        v |-> <<"A", "n", "t", "i", "c", "i", "p", "a", "t", "i", "o", "n">>],
       [k |-> <<"p", "r", "e", "m", "a", "t", "u", "r", "e">>,
        v |-> <<"P", "r", "e", "m", "a", "t", "u", "r", "e">>],
       [k |-> <<"p", "r", "e", "m", "a", "t", "u", "r", "e", " ", "d", "i", "s", "c", "o", "v", "e", "r", "y">>,
        v |-> <<"P", "r", "e", "m", "a", "t", "u", "r", "e">>],
       [k |-> <<"p", "r", "e", "m", "a", "t", "u", "r", "e", " ", "e", "x", "p", "e", "r", "t">>,
        v |-> <<"P", "r", "e", "m", "a", "t", "u", "r", "e">>],
       [k |-> <<"s", "e", "t", "t", "l", "e", "m", "e", "n", "t", " ", "p", "r", "i", "v">>,
        v |-> <<"S", "e", "t", "t", "l", "e", "m", "e", "n", "t", "-", "P", "r", "i", "v">>],
       [k |-> <<"s", "e", "t", "t", "l", "e", "m", "e", "n", "t">>,
        v |-> <<"S", "e", "t", "t", "l", "e", "m", "e", "n", "t", "-", "P", "r", "i", "v">>],
       [k |-> <<"s", "e", "t", "t", "l", "e", "m", "e", "n", "t", " ", "p", "r", "i", "v", "i", "l", "e", "g", "e">>,
        v |-> <<"S", "e", "t", "t", "l", "e", "m", "e", "n", "t", "-", "P", "r", "i", "v">>],
       [k |-> <<"d", "e", "f", "-", "o", "v", "e", "r", "b", "r", "o", "a", "d">>,
        v |-> <<"D", "e", "f", "-", "O", "v", "e", "r", "b", "r", "o", "a", "d">>],
       [k |-> <<"d", "e", "f", "i", "n", "i", "t", "i", "o", "n", " ", "o", "v", "e", "r", "b", "r", "o", "a", "d">>,
        v |-> <<"D", "e", "f", "-", "O", "v", "e", "r", "b", "r", "o", "a", "d">>] >>

\* normalize_column_name: None for an empty name, the canonical name of a known
\* alias, the name as given otherwise
NormalizeColumnName(col_name) ==
    IF col_name = <<>> THEN None
    ELSE LET lower == Lower(Strip(col_name)) IN
         IF DictHas(AliasToCanonical, lower)
         THEN Some(DictGet(AliasToCanonical, lower))
         ELSE Some(col_name)

\* generate_prompt_packages.parse_matrix_cell: [use, notes]
GenParseMatrixCell(cell) ==
    IF cell = <<>> THEN [use |-> FALSE, notes |-> None]
    ELSE LET val == Strip(cell) IN
         IF val = <<>> THEN [use |-> FALSE, notes |-> None]
         ELSE IF Contains(val, ";")
              THEN LET notes == Strip(SubSeq(val, IndexOf(val, ";") + 1, Len(val)))
                   IN [use |-> TRUE, notes |-> IF notes # <<>> THEN Some(notes) ELSE None]
              ELSE IF Upper(val) \in AffirmativeTokens
                   THEN [use |-> TRUE, notes |-> None]
                   ELSE [use |-> TRUE, notes |-> Some(val)]

\* (col, canonical) for every header that is neither request nor notes column
\* and has a name, in header order
GenObjectionCols(headers) ==
    LET others == SelectSeq(headers, LAMBDA h :
                      ~IsRequestColumn(h) /\ ~IsNotesColumn(h)
                      /\ NormalizeColumnName(h) # None)
    IN [i \in 1..Len(others) |->
           [col |-> others[i], canonical |-> NormalizeColumnName(others[i])[1]]]

\* A row reading that keeps the categories and loses the annotations.
GenRowObjectionsBare(headers, row, objection_cols) ==
    LET used == SelectSeq(objection_cols,
                          LAMBDA c : GenParseMatrixCell(RowGet(headers, row, c.col)).use)
    IN [i \in 1..Len(used) |-> [name |-> used[i].canonical, notes |-> None]]

GenRowObjections(headers, row, objection_cols) ==
    LET used == SelectSeq(objection_cols,
                          LAMBDA c : GenParseMatrixCell(RowGet(headers, row, c.col)).use)
    IN [i \in 1..Len(used) |->
          [name |-> used[i].canonical,
           notes |-> GenParseMatrixCell(RowGet(headers, row, used[i].col)).notes]]

\* The row loop of generate_prompt_packages.parse_matrix.
RECURSIVE GenParseRows(_, _, _, _)
GenParseRows(headers, rows, cols, result) ==
    IF rows = <<>> THEN result
    ELSE LET row == Head(rows)
             req_num == Strip(RowGet(headers, row, cols.request[1]))
             notes_val == IF cols.notes # None
                          THEN Strip(RowGet(headers, row, cols.notes[1]))
                          ELSE <<>>
         IN IF req_num = <<>>
            THEN GenParseRows(headers, Tail(rows), cols, result)
            ELSE GenParseRows(headers, Tail(rows), cols,
                     Append(result,
                            [request |-> req_num,
                             objections |-> GenRowObjections(headers, row, cols.objections),
                             notes_col |-> notes_val]))

\* generate_prompt_packages.parse_matrix: raised is TRUE when it raises
\* ValueError, rows is the list it returns otherwise
GenParseMatrix(m) ==
    LET cols == [request |-> RequestCol(m.headers),
                 notes |-> NotesCol(m.headers),
                 objections |-> GenObjectionCols(m.headers)]
    IN IF cols.request = None
       THEN [raised |-> TRUE, rows |-> <<>>]
       ELSE [raised |-> FALSE, rows |-> GenParseRows(m.headers, m.rows, cols, <<>>)]

-----------------------------------------------------------------------------
(* Request extractor.  A document is a sequence of items [k, n, sep, txt]: *)
(* k = "TEXT" is a run of ordinary text txt; any other k is an instrument  *)
(* heading, n the run of digits and dots after it and sep the run of       *)
(* colons and white space after that.                                      *)

MarkerText(k) ==
    CASE k = "FROG" -> <<"F", "o", "r", "m", " ", "I", "n", "t", "e", "r", "r", "o", "g", "a", "t", "o", "r", "y", " ", "N", "o", ".", " ">>
      [] k = "RFA" -> <<"R", "E", "Q", "U", "E", "S", "T", " ", "F", "O", "R", " ", "A", "D", "M", "I", "S", "S", "I", "O", "N", " ", "N", "O", ".", " ">>
      [] k = "RPD" -> <<"R", "E", "Q", "U", "E", "S", "T", " ", "F", "O", "R", " ", "P", "R", "O", "D", "U", "C", "T", "I", "O", "N", " ", "N", "O", ".", " ">>
      [] k = "RPDD" -> <<"R", "E", "Q", "U", "E", "S", "T", " ", "F", "O", "R", " ", "P", "R", "O", "D", "U", "C", "T", "I", "O", "N", " ", "O", "F", " ", "D", "O", "C", "U", "M", "E", "N", "T", "S", " ", "N", "O", ".", " ">>
      [] k = "SROG" -> <<"S", "P", "E", "C", "I", "A", "L", " ", "I", "N", "T", "E", "R", "R", "O", "G", "A", "T", "O", "R", "Y", " ", "N", "O", ".", " ">>
      [] k = "ROG" -> <<"I", "N", "T", "E", "R", "R", "O", "G", "A", "T", "O", "R", "Y", " ", "N", "O", ".", " ">>
      [] k = "BARE" -> <<"\n">>
      [] OTHER -> <<>>

Render(item) ==
    IF item.k = "TEXT" THEN item.txt ELSE MarkerText(item.k) \o item.n \o item.sep

IsDigits(n) == n # <<>> /\ \A i \in 1..Len(n) : n[i] \in Digits

\* \d+\.?\d*
IsFormNum(n) ==
    \E a \in 1..Len(n) :
        /\ IsDigits(SubSeq(n, 1, a))
        /\ \/ a = Len(n)
           \/ n[a + 1] = "." /\ \A i \in (a + 2)..Len(n) : n[i] \in Digits

\* \d+\.\d+
IsDecimal(n) ==
    \E a \in 1..Len(n) :
        /\ IsDigits(SubSeq(n, 1, a))
        /\ a + 1 < Len(n)
        /\ n[a + 1] = "."
        /\ IsDigits(SubSeq(n, a + 2, Len(n)))

RECURSIVE LStripIn(_, _)
LStripIn(s, chars) ==
    IF s # <<>> /\ Head(s) \in chars THEN LStripIn(Tail(s), chars) ELSE s

RECURSIVE RStripIn(_, _)
RStripIn(s, chars) ==
    IF s # <<>> /\ s[Len(s)] \in chars
    THEN RStripIn(SubSeq(s, 1, Len(s) - 1), chars) ELSE s

QuoteChars == {"\"", "'"}
ColonSpace == {":", " ", "\t", "\n", "\r"}

DropFirstIn(s, chars) == IF s # <<>> /\ Head(s) \in chars THEN Tail(s) ELSE s
DropLastIn(s, chars) ==
    IF s # <<>> /\ s[Len(s)] \in chars THEN SubSeq(s, 1, Len(s) - 1) ELSE s

\* Index of the first item after i that ends the lazy body, Len(doc) + 1 at the end.
NextStop(doc, i, stops) ==
    LET js == {j \in (i + 1)..Len(doc) : doc[j].k \in stops}
    IN IF js = {} THEN Len(doc) + 1 ELSE CHOOSE j \in js : \A x \in js : j <= x

\* Text from just after the number of heading i up to the next stop.
RawAfter(doc, i, stops) ==
    doc[i].sep \o
    Concat([x \in 1..(NextStop(doc, i, stops) - i - 1) |-> Render(doc[i + x])])

\* Pattern 1: Form Interrogatory No. X.X
FormBody(raw) ==
    LET a == DropFirstIn(LStrip(raw), {":"})
        b == DropFirstIn(LStrip(a), QuoteChars)
        c == DropLastIn(RStrip(b), QuoteChars)
    IN RStripIn(LStripIn(Strip(c), QuoteChars), QuoteChars)

RECURSIVE FormRequests(_, _, _)
FormRequests(doc, i, requests) ==
    IF i > Len(doc) THEN requests
    ELSE IF doc[i].k = "FROG" /\ IsFormNum(doc[i].n)
              /\ FormBody(RawAfter(doc, i, {"FROG"})) # <<>>
         THEN FormRequests(doc, i + 1,
                  DictPut(requests, Strip(doc[i].n),
                          FormBody(RawAfter(doc, i, {"FROG"}))))
         ELSE FormRequests(doc, i + 1, requests)

\* Patterns 2-4 without the strip() of the captured body.
RECURSIVE NumberedRequestsUntrimmed(_, _, _, _)
NumberedRequestsUntrimmed(doc, kinds, i, requests) ==
    IF i > Len(doc) THEN requests
    ELSE LET raw == RawAfter(doc, i, kinds) IN
         IF doc[i].k \in kinds /\ IsDigits(doc[i].n)
            /\ raw # <<>> /\ Head(raw) \in ColonSpace
         THEN NumberedRequestsUntrimmed(doc, kinds, i + 1,
                  DictPut(requests, doc[i].n, LStripIn(raw, ColonSpace)))
         ELSE NumberedRequestsUntrimmed(doc, kinds, i + 1, requests)

\* Patterns 2-4: HEADING NO. X, then at least one colon or space, then the body
RECURSIVE NumberedRequests(_, _, _, _)
NumberedRequests(doc, kinds, i, requests) ==
    IF i > Len(doc) THEN requests
    ELSE LET raw == RawAfter(doc, i, kinds) IN
         IF doc[i].k \in kinds /\ IsDigits(doc[i].n)
            /\ raw # <<>> /\ Head(raw) \in ColonSpace
         THEN NumberedRequests(doc, kinds, i + 1,
                  DictPut(requests, doc[i].n, Strip(LStripIn(raw, ColonSpace))))
         ELSE NumberedRequests(doc, kinds, i + 1, requests)

\* Pattern 5: bare X.X at the start of a line
BareStart(doc, i) ==
    doc[i].k = "BARE" /\ IsDecimal(doc[i].n)
    /\ doc[i].sep # <<>> /\ IsSpace(Head(doc[i].sep))

BareStop(doc, i) ==
    LET js == {j \in (i + 1)..Len(doc) : BareStart(doc, j)}
    IN IF js = {} THEN Len(doc) + 1 ELSE CHOOSE j \in js : \A x \in js : j <= x

BareBody(doc, i) ==
    Strip(doc[i].sep \o
          Concat([x \in 1..(BareStop(doc, i) - i - 1) |-> Render(doc[i + x])]))

RECURSIVE BareRequests(_, _, _)
BareRequests(doc, i, requests) ==
    IF i > Len(doc) THEN requests
    ELSE IF BareStart(doc, i) /\ Len(BareBody(doc, i)) > 20
         THEN BareRequests(doc, i + 1, DictPut(requests, doc[i].n, BareBody(doc, i)))
         ELSE BareRequests(doc, i + 1, requests)

\* An extractor that prefers the later patterns.
ParseDiscoveryFileLastFirst(doc) ==
    IF BareRequests(doc, 1, <<>>) # <<>> THEN BareRequests(doc, 1, <<>>)
    ELSE IF NumberedRequests(doc, {"SROG", "ROG", "FROG"}, 1, <<>>) # <<>>
         THEN NumberedRequests(doc, {"SROG", "ROG", "FROG"}, 1, <<>>)
    ELSE IF NumberedRequests(doc, {"RPD", "RPDD"}, 1, <<>>) # <<>>
         THEN NumberedRequests(doc, {"RPD", "RPDD"}, 1, <<>>)
    ELSE IF NumberedRequests(doc, {"RFA"}, 1, <<>>) # <<>>
         THEN NumberedRequests(doc, {"RFA"}, 1, <<>>)
    ELSE FormRequests(doc, 1, <<>>)

\* parse_discovery_file: the first pattern that finds anything
ParseDiscoveryFile(doc) ==
    IF FormRequests(doc, 1, <<>>) # <<>> THEN FormRequests(doc, 1, <<>>)
    ELSE IF NumberedRequests(doc, {"RFA"}, 1, <<>>) # <<>>
         THEN NumberedRequests(doc, {"RFA"}, 1, <<>>)
    ELSE IF NumberedRequests(doc, {"RPD", "RPDD"}, 1, <<>>) # <<>>
         THEN NumberedRequests(doc, {"RPD", "RPDD"}, 1, <<>>)
    ELSE IF NumberedRequests(doc, {"SROG", "ROG", "FROG"}, 1, <<>>) # <<>>
         THEN NumberedRequests(doc, {"SROG", "ROG", "FROG"}, 1, <<>>)
    ELSE BareRequests(doc, 1, <<>>)

-----------------------------------------------------------------------------
(* The working directory *)

VARIABLES
    fs,         \* file name -> None, or Some(content): the .txt and .csv files
    package,    \* edits_prompt_package.md: None, or Some(sequence of entries)
    stateFile,  \* objection_state.json: [kind, doc]
    out,        \* what the last command reported (cleared when a file is edited)
    edits,      \* number of edits made to the sources and the package from outside
    recorded,   \* history variable: None, or Some([files, pairs]) as written by
                \* the last init, while objection_state.json has not been damaged
    arg,        \* the input handed to a parser run on its own
    res,        \* None, or Some(what the parser returned for arg)
    procs       \* invocation -> [pc, cmd, note, state]: where an invocation that
                \* runs beside another stands, and the state object it holds

vars == <<fs, package, stateFile, out, edits, recorded, arg, res, procs>>

dirVars == <<fs, package, stateFile, out, edits, recorded>>

AuxFiles == <<"objection_language.txt", "case_summary.txt">>
SkipTxtFiles == {"case_summary.txt", "objection_language.txt", "preliminary_objections.txt"}

\* Directory listings, in the order glob returns them.
TxtFiles == <<"case_summary.txt", "objection_language.txt", "rfa.txt", "srog.txt">>
CsvFiles == <<"rfa.csv", "srog.csv">>
FileNames == SeqToSet(TxtFiles) \cup SeqToSet(CsvFiles)

Exists(dir, name) == dir[name] # None
Content(dir, name) == dir[name][1]

\* file_hash: None for a missing file, else the digest of its bytes
FileHash(dir, name) == IF ~Exists(dir, name) THEN None ELSE Some(Content(dir, name))

Stem(name) ==
    CASE name \in {"rfa.txt", "rfa.csv"} -> "rfa"
      [] name \in {"srog.txt", "srog.csv"} -> "srog"
      [] name = "case_summary.txt" -> "case_summary"
      [] name = "objection_language.txt" -> "objection_language"

\* detect_discovery_type on the names of this directory
DetectDiscoveryType(name) ==
    CASE Stem(name) = "rfa" -> "RFA"
      [] Stem(name) = "srog" -> "SROG"
      [] OTHER -> "DISCOVERY"

GetPairId(disc, matrix) == <<Stem(disc), Stem(matrix)>>

FindDiscoveryFiles(dir) ==
    SelectSeq(TxtFiles, LAMBDA f : Exists(dir, f) /\ f \notin SkipTxtFiles)

FindMatrixFiles(dir) ==
    SelectSeq(CsvFiles, LAMBDA f :
        /\ Exists(dir, f)
        /\ \E i \in 1..Len(Content(dir, f).headers) :
               IsRequestColumn(Content(dir, f).headers[i]))

\* Name similarity of auto_match_pairs: letters shared by the two stems, plus
\* 10 when one stem contains the other.  "rfa"/"rfa" = 3 + 10, "srog"/"srog" =
\* 4 + 10, "rfa"/"srog" share only "r".
MatchScore(txt, csv) ==
    CASE Stem(txt) = "rfa" /\ Stem(csv) = "rfa" -> 13
      [] Stem(txt) = "srog" /\ Stem(csv) = "srog" -> 14
      [] OTHER -> 1

\* The first csv of the best score among those not matched yet, None if no
\* score exceeds 0.
BestMatch(txt, csvs, matched) ==
    LET free == {i \in 1..Len(csvs) : csvs[i] \notin matched /\ MatchScore(txt, csvs[i]) > 0}
    IN IF free = {} THEN None
       ELSE Some(csvs[CHOOSE i \in free :
                    \A j \in free :
                       \/ MatchScore(txt, csvs[j]) < MatchScore(txt, csvs[i])
                       \/ MatchScore(txt, csvs[j]) = MatchScore(txt, csvs[i]) /\ i <= j])

RECURSIVE MatchLoop(_, _, _, _)
MatchLoop(txts, csvs, matched, pairs) ==
    IF txts = <<>> THEN pairs
    ELSE LET txt == Head(txts)
             best == BestMatch(txt, csvs, matched)
         IN IF best # None /\ MatchScore(txt, best[1]) > 3
            THEN MatchLoop(Tail(txts), csvs, matched \cup {best[1]},
                           Append(pairs, <<txt, best[1]>>))
            ELSE MatchLoop(Tail(txts), csvs, matched, pairs)

AutoMatchPairs(dir) ==
    MatchLoop(FindDiscoveryFiles(dir), FindMatrixFiles(dir), {}, <<>>)

-----------------------------------------------------------------------------
(* State management *)

\* An empty state that logs its own creation.
NewStateLogged ==
    [schema_version |-> "3.1", files |-> <<>>, pairs |-> <<>>,
     history |-> << [action |-> "created"] >>]

NewState ==
    [schema_version |-> "3.1", files |-> <<>>, pairs |-> <<>>, history |-> <<>>]

AbsentFile == [kind |-> "absent", doc |-> None]
CorruptFile == [kind |-> "corrupt", doc |-> None]

\* load_state: the parsed document, new_state() when the file is missing or
\* json.loads raises
LoadState(sf) == IF sf.kind = "json" THEN sf.doc[1] ELSE NewState

\* Which return of load_state was taken.
LoadOutcome(sf) == IF sf.kind = "json" THEN "stored" ELSE "empty"

SaveState(state) == [kind |-> "json", doc |-> Some(state)]

\* The invocations that may run side by side, and one that is not running.
Procs == {1, 2}
Idle == [pc |-> "idle", cmd |-> "none", note |-> "", state |-> NewState]

-----------------------------------------------------------------------------
(* Command reports *)

NoOut ==
    [cmd |-> "none", disk |-> "none", baseline |-> "none", noBaseline |-> FALSE,
     fileChanges |-> <<>>, missing |-> <<>>, changes |-> <<>>, applied |-> <<>>,
     count |-> 0]

Report(cmd, sf) ==
    [NoOut EXCEPT !.cmd = cmd, !.disk = sf.kind, !.baseline = LoadOutcome(sf)]

-----------------------------------------------------------------------------
(* init *)

RECURSIVE AuxBaselines(_, _, _)
AuxBaselines(dir, paths, files) ==
    IF paths = <<>> THEN files
    ELSE IF Exists(dir, Head(paths))
         THEN AuxBaselines(dir, Tail(paths),
                           DictPut(files, Head(paths), [hash |-> FileHash(dir, Head(paths))]))
         ELSE AuxBaselines(dir, Tail(paths), files)

\* The requests recorded for one pair: objection names and the notes cell.
BaselineRequests(matrix_data) ==
    [i \in 1..Len(matrix_data) |->
        [k |-> matrix_data[i].k,
         v |-> [objections |-> [j \in 1..Len(matrix_data[i].v.objections) |->
                                   matrix_data[i].v.objections[j].name],
                notes |-> matrix_data[i].v.notes]]]

RECURSIVE InitPairs(_, _, _)
InitPairs(dir, pairs, state) ==
    IF pairs = <<>> THEN state
    ELSE LET disc == Head(pairs)[1]
             matrix == Head(pairs)[2]
             files1 == DictPut(state.files, disc, [hash |-> FileHash(dir, disc)])
             files2 == DictPut(files1, matrix, [hash |-> FileHash(dir, matrix)])
             entry == [discovery |-> disc,
                       matrix |-> matrix,
                       type |-> DetectDiscoveryType(disc),
                       requests |-> BaselineRequests(ParseMatrix(Content(dir, matrix)))]
         IN InitPairs(dir, Tail(pairs),
                      [state EXCEPT !.files = files2,
                                    !.pairs = DictPut(state.pairs, GetPairId(disc, matrix), entry)])

\* The state cmd_init builds for the matched pairs: it starts from new_state(),
\* never from the stored state.
InitStateOf(dir, pairs) ==
    LET s0 == [NewState EXCEPT !.files = AuxBaselines(dir, AuxFiles, <<>>)]
        s1 == InitPairs(dir, pairs, s0)
    IN [s1 EXCEPT !.history =
            Append(s1.history, [action |-> "init",
                                pairs_count |-> Len(pairs),
                                pair_ids |-> DictKeys(s1.pairs)])]

\* An init that captures only the pairs the stored baseline does not hold yet.
CmdInitNewPairsOnly ==
    LET known == DictKeys(LoadState(stateFile).pairs)
        pairs == SelectSeq(AutoMatchPairs(fs),
                           LAMBDA p : GetPairId(p[1], p[2]) \notin SeqToSet(known))
        state == InitStateOf(fs, pairs)
    IN /\ stateFile' = SaveState(state)
       /\ out' = [NoOut EXCEPT !.cmd = "init", !.count = Len(pairs)]
       /\ recorded' = Some([files |-> state.files, pairs |-> state.pairs])
       /\ UNCHANGED <<arg, res, procs, fs, package, edits>>

CmdInit ==
    LET pairs == AutoMatchPairs(fs)
        state == InitStateOf(fs, pairs)
    IN
    /\ stateFile' = SaveState(state)
    /\ out' = [NoOut EXCEPT !.cmd = "init", !.count = Len(pairs)]
    /\ recorded' = Some([files |-> state.files, pairs |-> state.pairs])
    /\ UNCHANGED <<arg, res, procs, fs, package, edits>>

-----------------------------------------------------------------------------
(* check *)

StoredObjs(stored_requests, req_num) ==
    IF DictHas(stored_requests, req_num)
    THEN SeqToSet(DictGet(stored_requests, req_num).objections)
    ELSE {}

ObjNames(objections) == [j \in 1..Len(objections) |-> objections[j].name]

FileChanges(state, dir) ==
    LET all == [i \in 1..Len(state.files) |->
                   [file |-> state.files[i].k,
                    old |-> state.files[i].v.hash,
                    new |-> FileHash(dir, state.files[i].k)]]
    IN SelectSeq(all, LAMBDA c : c.new # c.old)

\* A labelling that has lost its REWRITE branch.
CheckActionAugmentOnly(removed) == "AUGMENT"

\* A labelling that tells every change to start afresh.
CheckActionRewriteOnly(removed) == "REWRITE"

\* The label cmd_check prints for a change.
CheckAction(removed) == IF removed # {} THEN "REWRITE" ELSE "AUGMENT"

CheckPairChanges(pair_id, pair_data, dir) ==
    LET current_matrix == ParseMatrix(Content(dir, pair_data.matrix))
        change(e) ==
            LET current_objs == SeqToSet(ObjNames(e.v.objections))
                stored_objs == StoredObjs(pair_data.requests, e.k)
            IN [pair_id |-> pair_id,
                type |-> pair_data.type,
                request |-> e.k,
                added |-> current_objs \ stored_objs,
                removed |-> stored_objs \ current_objs,
                current |-> current_objs,
                action |-> CheckAction(stored_objs \ current_objs)]
        all == [i \in 1..Len(current_matrix) |-> change(current_matrix[i])]
    IN SelectSeq(all, LAMBDA c : c.added # {} \/ c.removed # {})

CheckChanges(state, dir) ==
    Concat([i \in 1..Len(state.pairs) |->
              IF ~Exists(dir, state.pairs[i].v.matrix) THEN <<>>
              ELSE CheckPairChanges(state.pairs[i].k, state.pairs[i].v, dir)])

\* The "[!] Matrix file missing" lines of cmd_check.
CheckMissing(state, dir) ==
    LET names == [i \in 1..Len(state.pairs) |-> state.pairs[i].v.matrix]
    IN SelectSeq(names, LAMBDA m : ~Exists(dir, m))

CmdCheck ==
    LET state == LoadState(stateFile) IN
    /\ out' = IF state.pairs = <<>>
              THEN [Report("check", stateFile) EXCEPT !.noBaseline = TRUE]
              ELSE LET all_changes == CheckChanges(state, fs) IN
                   [Report("check", stateFile) EXCEPT
                       !.fileChanges = FileChanges(state, fs),
                       !.missing = CheckMissing(state, fs),
                       !.changes = all_changes,
                       !.count = Len(all_changes)]
    /\ UNCHANGED <<arg, res, procs, fs, package, stateFile, edits, recorded>>

-----------------------------------------------------------------------------
(* diff *)

TextNotFound == <<"[", "T", "E", "X", "T", " ", "N", "O", "T", " ", "F", "O", "U", "N", "D", "]">>
DraftHere == <<"[", "D", "R", "A", "F", "T", " ", "H", "E", "R", "E", "]">>

\* A labelling with the two branches swapped.
DiffActionSwapped(removed) == IF removed # {} THEN "AUGMENT" ELSE "REWRITE"

DiffAction(removed) == IF removed # {} THEN "REWRITE" ELSE "AUGMENT"

DiffPairChanges(pair_data, dir) ==
    LET disc_texts == IF Exists(dir, pair_data.discovery)
                      THEN ParseDiscoveryFile(Content(dir, pair_data.discovery))
                      ELSE <<>>
        current_matrix == ParseMatrix(Content(dir, pair_data.matrix))
        change(e) ==
            LET current_objs == ObjNames(e.v.objections)
                current_obj_set == SeqToSet(current_objs)
                stored_objs == StoredObjs(pair_data.requests, e.k)
            IN [type |-> pair_data.type,
                request |-> e.k,
                request_text |-> IF DictHas(disc_texts, e.k)
                                 THEN DictGet(disc_texts, e.k) ELSE TextNotFound,
                added |-> current_obj_set \ stored_objs,
                removed |-> stored_objs \ current_obj_set,
                current |-> current_objs,
                notes |-> e.v.notes,
                action |-> DiffAction(stored_objs \ current_obj_set)]
        all == [i \in 1..Len(current_matrix) |-> change(current_matrix[i])]
    IN SelectSeq(all, LAMBDA c : c.added # {} \/ c.removed # {})

DiffChanges(state, dir) ==
    Concat([i \in 1..Len(state.pairs) |->
              IF ~Exists(dir, state.pairs[i].v.matrix) THEN <<>>
              ELSE DiffPairChanges(state.pairs[i].v, dir)])

\* The sections of the edits package that cmd_apply reads back: the heading
\* "### TYPE NO. REQUEST - ACTION" and the fenced block under REVISED PROSE.
PackageEntries(all_changes) ==
    [i \in 1..Len(all_changes) |->
        [type |-> all_changes[i].type,
         request |-> all_changes[i].request,
         action |-> all_changes[i].action,
         prose |-> DraftHere]]

\* A diff that also accepts what it reported: the stored objections of every
\* changed request are replaced by the current ones.
DiffStateRebaseline(state, all_changes) ==
    LET accept(type, e) ==
            LET recs == SelectSeq(all_changes, LAMBDA c : c.type = type /\ c.request = e.k)
            IN IF recs = <<>> THEN e
               ELSE [e EXCEPT !.v.objections = recs[1].current]
        pairs == [i \in 1..Len(state.pairs) |->
                    [state.pairs[i] EXCEPT !.v.requests =
                        [j \in 1..Len(state.pairs[i].v.requests) |->
                            accept(state.pairs[i].v.type, state.pairs[i].v.requests[j])]]]
    IN [state EXCEPT !.pairs = pairs,
                     !.history = Append(state.history,
                                        [action |-> "diff", changes_count |-> Len(all_changes)])]

\* The state cmd_diff saves.
DiffState(state, all_changes) ==
    [state EXCEPT !.history =
        Append(state.history, [action |-> "diff", changes_count |-> Len(all_changes)])]

CmdDiff ==
    LET state == LoadState(stateFile) IN
    IF state.pairs = <<>>
    THEN /\ out' = [Report("diff", stateFile) EXCEPT !.noBaseline = TRUE]
         /\ UNCHANGED <<arg, res, procs, fs, package, stateFile, edits, recorded>>
    ELSE LET all_changes == DiffChanges(state, fs) IN
         /\ Len(state.history) < MaxHist
         /\ package' = Some(PackageEntries(all_changes))
         /\ stateFile' = SaveState(DiffState(state, all_changes))
         /\ out' = [Report("diff", stateFile) EXCEPT
                       !.changes = all_changes, !.count = Len(all_changes)]
         /\ UNCHANGED <<arg, res, procs, fs, edits, recorded>>

-----------------------------------------------------------------------------
(* apply *)

\* ([\d.]+) between "NO. " and the dash of the heading
IsEditRequest(req) == req # <<>> /\ \A i \in 1..Len(req) : req[i] \in Digits \cup {"."}

\* re.findall of the edits pattern: (dtype, req_num, action, prose)
ParseEdits(entries) ==
    LET found == SelectSeq(entries, LAMBDA e :
                     IsEditRequest(e.request) /\ e.action \in {"AUGMENT", "REWRITE"})
    IN [i \in 1..Len(found) |-> [found[i] EXCEPT !.prose = Strip(found[i].prose)]]

\* An apply that keeps every parsed entry, drafted or not.
AppliedUnfiltered(entries) == ParseEdits(entries)

Applied(entries) ==
    SelectSeq(ParseEdits(entries), LAMBDA m :
        ~(Strip(m.prose) = DraftHere \/ Strip(m.prose) = <<>>))

\* An apply that starts the log afresh.
ApplyStateFreshLog(state, applied) ==
    [state EXCEPT !.history =
        << [action |-> "apply",
            applied_count |-> Len(applied),
            edits |-> [i \in 1..Len(applied) |->
                          [type |-> applied[i].type, request |-> applied[i].request]]] >>]

\* The state cmd_apply saves when something was applied.
ApplyState(state, applied) ==
    [state EXCEPT !.history =
        Append(state.history,
               [action |-> "apply",
                applied_count |-> Len(applied),
                edits |-> [i \in 1..Len(applied) |->
                              [type |-> applied[i].type, request |-> applied[i].request]]])]

CmdApply ==
    IF package = None
    THEN /\ out' = [NoOut EXCEPT !.cmd = "apply"]
         /\ UNCHANGED <<arg, res, procs, fs, package, stateFile, edits, recorded>>
    ELSE LET state == LoadState(stateFile)
             applied == Applied(package[1])
         IN /\ applied # <<>> => Len(state.history) < MaxHist
            /\ stateFile' = IF applied # <<>>
                            THEN SaveState(ApplyState(state, applied))
                            ELSE stateFile
            /\ out' = [Report("apply", stateFile) EXCEPT
                          !.applied = applied, !.count = Len(applied)]
            /\ UNCHANGED <<arg, res, procs, fs, package, edits, recorded>>

-----------------------------------------------------------------------------
(* snapshot, status, history *)

\* len(current_hashes): the *.txt, *.csv and *.md files present
FileCount(dir, pkg) ==
    Cardinality({f \in FileNames : Exists(dir, f)}) + (IF pkg # None THEN 1 ELSE 0)

\* A snapshot that stores the fingerprints it has just computed.
SnapshotStateRefreshed(state, note, dir, pkg) ==
    [state EXCEPT !.files = [i \in 1..Len(state.files) |->
                                [state.files[i] EXCEPT !.v.hash = FileHash(dir, state.files[i].k)]],
                  !.history =
        Append(state.history,
               [action |-> "snapshot", note |-> note, file_count |-> FileCount(dir, pkg)])]

SnapshotState(state, note, dir, pkg) ==
    [state EXCEPT !.history =
        Append(state.history,
               [action |-> "snapshot", note |-> note, file_count |-> FileCount(dir, pkg)])]

\* The free text given to --snapshot; it is stored and printed, never read.
Notes == {"before edits"}

CmdSnapshot(note) ==
    LET state == LoadState(stateFile) IN
    /\ Len(state.history) < MaxHist
    /\ stateFile' = SaveState(SnapshotState(state, note, fs, package))
    /\ out' = [Report("snapshot", stateFile) EXCEPT !.count = FileCount(fs, package)]
    /\ UNCHANGED <<arg, res, procs, fs, package, edits, recorded>>

CmdStatus ==
    LET state == LoadState(stateFile) IN
    /\ out' = IF state.pairs = <<>>
              THEN [Report("status", stateFile) EXCEPT !.noBaseline = TRUE]
              ELSE [Report("status", stateFile) EXCEPT !.count = Len(state.history)]
    /\ UNCHANGED <<arg, res, procs, fs, package, stateFile, edits, recorded>>

\* history[-20:]
LastEntries(history) ==
    SubSeq(history, IF Len(history) > 20 THEN Len(history) - 19 ELSE 1, Len(history))

CmdHistory ==
    LET state == LoadState(stateFile) IN
    /\ out' = [Report("history", stateFile) EXCEPT
                  !.count = Len(LastEntries(state.history))]
    /\ UNCHANGED <<arg, res, procs, fs, package, stateFile, edits, recorded>>

-----------------------------------------------------------------------------
(* The files the model starts from, and the edits made to them from outside *)

H_Request == <<"R", "e", "q", "u", "e", "s", "t">>
H_Vague == <<"V", "a", "g", "u", "e">>
H_Compound == <<"C", "o", "m", "p", "o", "u", "n", "d">>
H_Overbroad == <<"O", "v", "e", "r", "b", "r", "o", "a", "d">>
H_Notes == <<"N", "o", "t", "e", "s">>
H_No == <<"N", "o", ".">>
H_Relevance == <<"R", "e", "l", "e", "v", "a", "n", "c", "e">>
H_Ambiguous == <<"A", "m", "b", "i", "g", "u", "o", "u", "s">>
Mark == <<"x">>

Item(k, n, sep, txt) == [k |-> k, n |-> n, sep |-> sep, txt |-> txt]

RfaDoc ==
    << Item("RFA", <<"1">>, <<":", " ">>, <<>>),
       Item("TEXT", <<>>, <<>>, <<"A", "d", "m", "i", "t", " ", "i", "t", ".", "\n">>),
       Item("RFA", <<"2">>, <<":", " ">>, <<>>),
       Item("TEXT", <<>>, <<>>, <<"A", "d", "m", "i", "t", " ", "i", "t", ".">>) >>

SrogDoc ==
    << Item("SROG", <<"1">>, <<":", " ">>, <<>>),
       Item("TEXT", <<>>, <<>>, <<"S", "t", "a", "t", "e", " ", "a", "l", "l", " ", "f", "a", "c", "t", "s", ".">>) >>

RfaHeaders == <<H_Request, H_Vague, H_Compound, H_Overbroad, H_Notes>>
SrogHeaders == <<H_No, H_Relevance>>
\* The same columns with "Vague" spelled as another of its aliases.
RfaAliasHeaders == <<H_Request, H_Ambiguous, H_Compound, H_Overbroad, H_Notes>>
CheckNote == <<"c", "h", "e", "c", "k">>
NewId == <<"A", "-", "1">>

\* The spreadsheets a user may save, the first being the one the model starts
\* from.  Request 1 of rfa.csv gains a mark in the second, trades one for
\* another in the third; the fourth drops request 1, marks request 2 once more
\* and adds a request with a non-numeric identifier; the fifth is the first
\* with one header respelled.
MatrixVersions(name) ==
    CASE name = "rfa.csv" ->
            << [headers |-> RfaHeaders,
                rows |-> << <<<<"1">>, Mark, Mark, <<>>, <<>>>>,
                            <<<<"2">>, <<>>, <<>>, Mark, CheckNote>> >>],
               [headers |-> RfaHeaders,
                rows |-> << <<<<"1">>, Mark, Mark, Mark, <<>>>>,
                            <<<<"2">>, <<>>, <<>>, Mark, CheckNote>> >>],
               [headers |-> RfaHeaders,
                rows |-> << <<<<"1">>, <<>>, Mark, Mark, <<>>>>,
                            <<<<"2">>, <<>>, <<>>, Mark, CheckNote>> >>],
               [headers |-> RfaHeaders,
                rows |-> << <<<<"2">>, <<>>, Mark, Mark, CheckNote>>,
                            <<NewId, Mark, <<>>, <<>>, <<>>>> >>],
               [headers |-> RfaAliasHeaders,
                rows |-> << <<<<"1">>, Mark, Mark, <<>>, <<>>>>,
                            <<<<"2">>, <<>>, <<>>, Mark, CheckNote>> >>] >>
      [] name = "srog.csv" ->
            << [headers |-> SrogHeaders, rows |-> << <<<<"1">>, Mark>> >>],
               [headers |-> SrogHeaders,
                rows |-> << <<<<"1">>, <<>>>>, <<<<"2">>, Mark>> >>] >>

InitialContent(name) ==
    CASE name \in SeqToSet(CsvFiles) -> MatrixVersions(name)[1]
      [] name = "rfa.txt" -> RfaDoc
      [] name = "srog.txt" -> SrogDoc
      [] OTHER -> <<"v", "1">>

\* What a file may be overwritten with.
Versions(name) ==
    CASE name \in SeqToSet(CsvFiles) -> SeqToSet(MatrixVersions(name))
      [] name = "rfa.txt" -> {RfaDoc, SubSeq(RfaDoc, 1, 2)}
      [] name = "srog.txt" -> {SrogDoc}
      [] name = "case_summary.txt" -> {<<"v", "1">>, <<"v", "2">>}
      [] OTHER -> {<<"v", "1">>}

ProsePool == {<<" ">>, <<"O", "b", "j", "e", "c", "t", "i", "o", "n", ".">>}

Edited == edits < MaxEdits /\ edits' = edits + 1 /\ out' = NoOut

DeleteFile(f) ==
    /\ Edited
    /\ Exists(fs, f)
    /\ fs' = [fs EXCEPT ![f] = None]
    /\ UNCHANGED <<arg, res, procs, package, stateFile, recorded>>

WriteFile(f, content) ==
    /\ Edited
    /\ fs[f] # Some(content)
    /\ fs' = [fs EXCEPT ![f] = Some(content)]
    /\ UNCHANGED <<arg, res, procs, package, stateFile, recorded>>

\* The drafter replaces the text of one fenced block of the edits package.
FillProse(i, prose) ==
    /\ Edited
    /\ package # None
    /\ i \in 1..Len(package[1])
    /\ package[1][i].prose # prose
    /\ package' = Some([package[1] EXCEPT ![i].prose = prose])
    /\ UNCHANGED <<arg, res, procs, fs, stateFile, recorded>>

\* objection_state.json is damaged so that json.loads raises.  The damage is
\* no edit of the sources or of the package, and it can happen once per saved
\* document.
CorruptStateFile ==
    /\ stateFile.kind = "json"
    /\ stateFile' = CorruptFile
    /\ recorded' = None
    /\ out' = NoOut
    /\ UNCHANGED <<arg, res, procs, fs, package, edits>>

-----------------------------------------------------------------------------

Init ==
    /\ fs = [f \in FileNames |-> Some(InitialContent(f))]
    /\ package = None
    /\ stateFile = AbsentFile
    /\ out = NoOut
    /\ edits = 0
    /\ recorded = None
    /\ arg = None
    /\ res = None
    /\ procs = [p \in Procs |-> Idle]

Next ==
    \/ CmdInit
    \/ CmdCheck
    \/ CmdDiff
    \/ CmdApply
    \/ \E note \in Notes : CmdSnapshot(note)
    \/ CmdStatus
    \/ CmdHistory
    \/ \E f \in FileNames : DeleteFile(f)
    \/ \E f \in FileNames : \E content \in Versions(f) : WriteFile(f, content)
    \/ \E i \in 1..MaxEntries, prose \in ProsePool : FillProse(i, prose)
    \/ CorruptStateFile

Spec == Init /\ [][Next]_vars

-----------------------------------------------------------------------------
(* The parsers run on their own: one input, one call *)

MaxCols == 3
MaxRows == 2
MaxItems == 4

\* The branch the header loop of smart_sync.parse_matrix takes for a column,
\* and the name under which it will report the column's marks.
SyncColumnRole(col) ==
    IF IsRequestColumn(col) THEN [role |-> "request", name |-> None]
    ELSE IF IsNotesColumn(col) THEN [role |-> "notes", name |-> None]
    ELSE [role |-> "objection", name |-> Some(col)]

\* The same for generate_prompt_packages.parse_matrix.
GenColumnRole(col) ==
    IF IsRequestColumn(col) THEN [role |-> "request", name |-> None]
    ELSE IF IsNotesColumn(col) THEN [role |-> "notes", name |-> None]
    ELSE IF NormalizeColumnName(col) = None THEN [role |-> "skipped", name |-> None]
    ELSE [role |-> "objection", name |-> NormalizeColumnName(col)]

H_Foo == <<"F", "o", "o">>
H_Req == <<"R", "e", "q">>
H_Comments == <<"C", "o", "m", "m", "e", "n", "t", "s">>

\* Header spellings: as written, in lower and upper case, padded on either side.
Spellings(h) == {h, Lower(h), Upper(h), <<" ">> \o h, h \o <<" ">>}

HeaderPool ==
    UNION {Spellings(h) : h \in {H_Vague, H_Ambiguous, H_Notes, H_No, H_Foo}}
    \cup {<<>>, <<" ">>}

CellCores ==
    { <<>>, <<"x">>, <<"X">>, <<"y", "e", "s">>, <<"Y", "e", "s">>, <<"Y", "E", "S">>, <<"y">>, <<"1">>, <<"t", "r", "u", "e">>, <<"T", "r", "u", "e">>, <<"n", "o">>, <<"n", "/", "a">>, <<";">>, <<"x", ";">>, <<";", "n">>, <<"x", ";", " ", "n">>, <<"a", ";", "b", ";", "c">>, <<"x", " ", ";">> }

CellPool ==
    {pre \o core \o post : pre \in {<<>>, <<" ">>}, core \in CellCores,
                           post \in {<<>>, <<" ">>, <<"\n">>}}

MatrixHeaderPool == {H_No, H_Req, H_Notes, H_Comments, H_Ambiguous, H_Foo}

CellCycle == << <<"1">>, <<"x", ";", " ", "n", " ">>, <<" ", "l", "o", "g", " ">>, <<>>, <<";">> >>

\* A row of w cells taken from the cycle, starting after the first shift cells.
CycleRow(shift, w) == [i \in 1..w |-> CellCycle[((i + shift - 1) % Len(CellCycle)) + 1]]

MatrixPool ==
    {[headers |-> hs, rows |-> rs] :
        hs \in [1..MaxCols -> MatrixHeaderPool],
        rs \in UNION {[1..n -> {CycleRow(shift, MaxCols) : shift \in 0..(Len(CellCycle) - 1)}] :
                         n \in 0..MaxRows}}

Text19 == <<"A", "d", "m", "i", "t", " ", "t", "h", "e", " ", "c", "o", "n", "t", "r", "a", "c", "t", ".">>

ItemPool ==
    { Item("FROG", <<"1", ".", "1">>, <<":", " ">>, <<>>),
      Item("RFA", <<"1">>, <<":", " ">>, <<>>),
      Item("RFA", <<"2">>, <<":", " ">>, <<>>),
      Item("RPD", <<"1">>, <<":", " ">>, <<>>),
      Item("SROG", <<"1">>, <<":", " ">>, <<>>),
      Item("BARE", <<"1", ".", "1">>, <<" ">>, <<>>),
      Item("TEXT", <<>>, <<>>, Text19),
      Item("TEXT", <<>>, <<>>, <<"a", "\n">>),
      Item("TEXT", <<>>, <<>>, <<":", "x">>) }

DocPool == UNION {[1..n -> ItemPool] : n \in 1..MaxItems}

HeaderInputs == {[kind |-> "headers", val |-> hh] : hh \in HeaderPool \X HeaderPool}
CellInputs == {[kind |-> "cell", val |-> c] : c \in CellPool}
MatrixInputs == {[kind |-> "matrix", val |-> m] : m \in MatrixPool}
DocInputs == {[kind |-> "document", val |-> d] : d \in DocPool}

Returned(value) == res = None /\ res' = Some(value) /\ UNCHANGED <<dirVars, arg, procs>>

ClassifyHeaders ==
    /\ arg.kind = "headers"
    /\ Returned([sync |-> <<SyncColumnRole(arg.val[1]), SyncColumnRole(arg.val[2])>>,
                 gen |-> <<GenColumnRole(arg.val[1]), GenColumnRole(arg.val[2])>>])

InterpretCell ==
    /\ arg.kind = "cell"
    /\ Returned([sync |-> ParseMatrixCell(arg.val), gen |-> GenParseMatrixCell(arg.val)])

\* smart_sync.parse_matrix as its caller sees it: it has no raise statement
\* and returns a dict for every table it is given.
SyncLoad(m) == [raised |-> FALSE, result |-> ParseMatrix(m)]

LoadMatrix ==
    /\ arg.kind = "matrix"
    /\ Returned([sync |-> SyncLoad(arg.val), gen |-> GenParseMatrix(arg.val)])

ExtractRequests ==
    /\ arg.kind = "document"
    /\ Returned(ParseDiscoveryFile(arg.val))

ParsersInit ==
    /\ fs = [f \in FileNames |-> Some(InitialContent(f))]
    /\ package = None
    /\ stateFile = AbsentFile
    /\ out = NoOut
    /\ edits = 0
    /\ recorded = None
    /\ \/ arg \in HeaderInputs
       \/ arg \in CellInputs
       \/ arg \in MatrixInputs
       \/ arg \in DocInputs
    /\ res = None
    /\ procs = [p \in Procs |-> Idle]

ParsersNext ==
    \/ ClassifyHeaders
    \/ InterpretCell
    \/ LoadMatrix
    \/ ExtractRequests

Parsers == ParsersInit /\ [][ParsersNext]_vars

-----------------------------------------------------------------------------
(* Two invocations side by side.  A command is a process of its own: between *)
(* its load_state() and its save_state() another process may run.  The       *)
(* directory holds a baseline; rfa.csv is as init read it or edited since.   *)

RaceNotes == {"before edits", "after edits"}

\* The state object an invocation appends to and saves: the one load_state()
\* returned to it.
LoadedAfresh(p) == LoadState(stateFile)

Loaded(p) == procs[p].state

\* cmd_snapshot up to and including load_state()
SnapshotLoads(p, note) ==
    /\ procs[p].pc = "idle"
    /\ Len(LoadState(stateFile).history) < MaxHist
    /\ procs' = [procs EXCEPT ![p] = [pc |-> "loaded", cmd |-> "snapshot",
                                      note |-> note, state |-> LoadState(stateFile)]]
    /\ UNCHANGED <<dirVars, arg, res>>

\* cmd_snapshot from there to save_state()
SnapshotSaves(p) ==
    /\ procs[p].pc = "loaded"
    /\ procs[p].cmd = "snapshot"
    /\ stateFile' = SaveState(SnapshotState(Loaded(p), procs[p].note, fs, package))
    /\ out' = [Report("snapshot", stateFile) EXCEPT !.count = FileCount(fs, package)]
    /\ procs' = [procs EXCEPT ![p].pc = "done"]
    /\ UNCHANGED <<fs, package, edits, recorded, arg, res>>

\* cmd_diff up to and including load_state() and the test for a baseline
DiffLoads(p) ==
    LET state == LoadState(stateFile) IN
    /\ procs[p].pc = "idle"
    /\ Len(state.history) < MaxHist
    /\ IF state.pairs = <<>>
       THEN /\ out' = [Report("diff", stateFile) EXCEPT !.noBaseline = TRUE]
            /\ procs' = [procs EXCEPT ![p] = [Idle EXCEPT !.pc = "done", !.cmd = "diff"]]
       ELSE /\ out' = out
            /\ procs' = [procs EXCEPT ![p] = [pc |-> "loaded", cmd |-> "diff",
                                              note |-> "", state |-> state]]
    /\ UNCHANGED <<fs, package, stateFile, edits, recorded, arg, res>>

\* cmd_diff from there to save_state()
DiffSaves(p) ==
    /\ procs[p].pc = "loaded"
    /\ procs[p].cmd = "diff"
    /\ LET all_changes == DiffChanges(Loaded(p), fs) IN
       /\ package' = Some(PackageEntries(all_changes))
       /\ stateFile' = SaveState(DiffState(Loaded(p), all_changes))
       /\ out' = [Report("diff", stateFile) EXCEPT
                     !.changes = all_changes, !.count = Len(all_changes)]
    /\ procs' = [procs EXCEPT ![p].pc = "done"]
    /\ UNCHANGED <<fs, edits, recorded, arg, res>>

\* The process ends.
Exits(p) ==
    /\ procs[p].pc = "done"
    /\ procs' = [procs EXCEPT ![p] = Idle]
    /\ UNCHANGED <<dirVars, arg, res>>

RacingInit ==
    LET dir0 == [f \in FileNames |-> Some(InitialContent(f))]
        state0 == InitStateOf(dir0, AutoMatchPairs(dir0))
    IN /\ \E v \in 1..2 :
             /\ fs = [dir0 EXCEPT !["rfa.csv"] = Some(MatrixVersions("rfa.csv")[v])]
             /\ edits = v - 1
       /\ package = None
       /\ stateFile = SaveState(state0)
       /\ out = NoOut
       /\ recorded = Some([files |-> state0.files, pairs |-> state0.pairs])
       /\ arg = None
       /\ res = None
       /\ procs = [p \in Procs |-> Idle]

RacingNext ==
    \/ \E p \in Procs, note \in RaceNotes : SnapshotLoads(p, note)
    \/ \E p \in Procs : SnapshotSaves(p)
    \/ \E p \in Procs : DiffLoads(p)
    \/ \E p \in Procs : DiffSaves(p)
    \/ \E p \in Procs : Exits(p)

Racing == RacingInit /\ [][RacingNext]_vars

-----------------------------------------------------------------------------
(* Properties *)

Stored == LoadState(stateFile)

\* The last command was a check or a diff that compared against a baseline.
Compared == out.cmd \in {"check", "diff"} /\ ~out.noBaseline

CurrentMatrix(pair_data) == ParseMatrix(Content(fs, pair_data.matrix))

\* The categories a parsed matrix marks for a request it holds.
CurrentObjs(matrix_data, req_num) ==
    SeqToSet(ObjNames(DictGet(matrix_data, req_num).objections))

\* The change records reported for one request of one discovery type.
RecordsFor(type, req_num) ==
    {c \in SeqToSet(out.changes) : c.type = type /\ c.request = req_num}

\* C1: for every request that is both in the baseline and in the current
\* matrix, if some category recorded in the baseline is no longer marked, check
\* and diff report the request and label it REWRITE, whatever was added to it
\* or stays marked on it.
C1_RemovalIsRewrite ==
    Compared =>
        \A i \in 1..Len(Stored.pairs) :
            LET p == Stored.pairs[i].v IN
            Exists(fs, p.matrix) =>
                \A j \in 1..Len(p.requests) :
                    LET r == p.requests[j].k
                        old == SeqToSet(p.requests[j].v.objections)
                        cur == CurrentMatrix(p)
                    IN (DictHas(cur, r) /\ old \ CurrentObjs(cur, r) # {}) =>
                          /\ RecordsFor(p.type, r) # {}
                          /\ \A c \in RecordsFor(p.type, r) :
                                /\ c.removed = old \ CurrentObjs(cur, r)
                                /\ c.action = "REWRITE"

\* A check has reported a request that lost one category, gained another and
\* kept a third.
C1_Witness ==
    /\ out.cmd = "check"
    /\ \E c \in SeqToSet(out.changes) :
          /\ c.removed # {}
          /\ c.added # {}
          /\ c.current \ c.added # {}
          /\ c.action = "REWRITE"

\* The requests init recorded for pair i, and what the matrix holds for them now.
RecordedRequests(i) == recorded[1].pairs[i].v.requests
RecordedObjs(i, j) == SeqToSet(RecordedRequests(i)[j].v.objections)

\* Since the init, the matrices differ from what was recorded in exactly one
\* place: request j of pair i has one more category marked.
OnlyOneMarkAdded(i, j) ==
    \A i2 \in 1..Len(recorded[1].pairs) :
        LET p == recorded[1].pairs[i2].v IN
        /\ Exists(fs, p.matrix)
        /\ SeqToSet(DictKeys(CurrentMatrix(p))) = SeqToSet(DictKeys(p.requests))
        /\ \A j2 \in 1..Len(p.requests) :
              LET now == CurrentObjs(CurrentMatrix(p), p.requests[j2].k) IN
              IF i2 = i /\ j2 = j
              THEN RecordedObjs(i, j) \subseteq now
                   /\ Cardinality(now \ RecordedObjs(i, j)) = 1
              ELSE now = RecordedObjs(i2, j2)

\* C2: after an init, when the only matrix edit is one category newly marked
\* on one recorded request, every diff, a diff that follows an earlier diff
\* included, reports exactly one change record: that request, the one category
\* as added, nothing removed, labelled AUGMENT.
C2_OneAugmentRecord ==
    (out.cmd = "diff" /\ recorded # None) =>
        \A i \in 1..Len(recorded[1].pairs) :
            \A j \in 1..Len(RecordedRequests(i)) :
                OnlyOneMarkAdded(i, j) =>
                    /\ Len(out.changes) = 1
                    /\ out.changes[1].type = recorded[1].pairs[i].v.type
                    /\ out.changes[1].request = RecordedRequests(i)[j].k
                    /\ out.changes[1].added =
                          CurrentObjs(CurrentMatrix(recorded[1].pairs[i].v),
                                      RecordedRequests(i)[j].k) \ RecordedObjs(i, j)
                    /\ out.changes[1].removed = {}
                    /\ out.changes[1].action = "AUGMENT"

\* A second diff in a row has run after such an edit.
C2_Witness ==
    /\ out.cmd = "diff"
    /\ recorded # None
    /\ \E i \in 1..Len(recorded[1].pairs) :
          \E j \in 1..Len(RecordedRequests(i)) : OnlyOneMarkAdded(i, j)
    /\ Len(Stored.history) >= 3
    /\ Stored.history[Len(Stored.history) - 1].action = "diff"
    /\ Stored.history[Len(Stored.history)].action = "diff"

\* C3: every request recorded in the baseline with at least one category and
\* without a row in the current matrix is reported by check and by diff as a
\* change whose removed set is all of its recorded categories, labelled
\* REWRITE.
C3_DroppedRequestSurfaced ==
    Compared =>
        \A i \in 1..Len(Stored.pairs) :
            LET p == Stored.pairs[i].v IN
            Exists(fs, p.matrix) =>
                \A j \in 1..Len(p.requests) :
                    LET r == p.requests[j].k
                        old == SeqToSet(p.requests[j].v.objections)
                    IN (old # {} /\ ~DictHas(CurrentMatrix(p), r)) =>
                          \E c \in RecordsFor(p.type, r) :
                              c.removed = old /\ c.action = "REWRITE"

\* C4: every request with a row in the current matrix and at least one
\* category marked, but not recorded in the baseline of its pair, is reported
\* by check and by diff with all its current categories as added, nothing
\* removed, labelled AUGMENT.
C4_NewRequestIsAugment ==
    Compared =>
        \A i \in 1..Len(Stored.pairs) :
            LET p == Stored.pairs[i].v IN
            Exists(fs, p.matrix) =>
                LET cur == CurrentMatrix(p) IN
                \A k \in 1..Len(cur) :
                    LET r == cur[k].k IN
                    (~DictHas(p.requests, r) /\ CurrentObjs(cur, r) # {}) =>
                        /\ RecordsFor(p.type, r) # {}
                        /\ \A c \in RecordsFor(p.type, r) :
                              /\ c.added = CurrentObjs(cur, r)
                              /\ c.removed = {}
                              /\ c.action = "AUGMENT"

\* A diff has reported a request the baseline of its pair does not hold.
C4_Witness ==
    /\ out.cmd = "diff"
    /\ \E i \in 1..Len(Stored.pairs) :
          \E c \in SeqToSet(out.changes) :
              /\ c.type = Stored.pairs[i].v.type
              /\ ~DictHas(Stored.pairs[i].v.requests, c.request)
              /\ c.added # {}

IsPrefix(a, b) == Len(a) <= Len(b) /\ SubSeq(b, 1, Len(a)) = a

StoredAfter == LoadState(stateFile')

\* C5 as stated: whichever command runs on a stored baseline, init, check,
\* diff, apply, snapshot, status or history, the history stored before it is a
\* prefix of the history stored after it.
C5_AppendOnly ==
    [][(stateFile.kind = "json" /\ out'.cmd # "none") =>
          IsPrefix(Stored.history, StoredAfter.history)]_vars

\* C5, amended: check, diff, apply, snapshot, status and history, run on a
\* stored baseline, leave the history stored before as a prefix of the history
\* stored after; init replaces the stored history by its own single record.
C5_AppendOnlyExceptInit ==
    [][(stateFile.kind = "json" /\ out'.cmd # "none") =>
          IF out'.cmd = "init"
          THEN Len(StoredAfter.history) = 1 /\ StoredAfter.history[1].action = "init"
          ELSE IsPrefix(Stored.history, StoredAfter.history)]_vars

\* An apply has appended to a history that already held an init and a diff.
C5_Witness ==
    /\ out.cmd = "apply"
    /\ out.count > 0
    /\ Len(Stored.history) = 3
    /\ Stored.history[1].action = "init"
    /\ Stored.history[3].action = "apply"

\* C6: after an init, whatever checks, diffs, applies and snapshots run and
\* whatever edits are made to the matrix and document files, the stored file
\* fingerprints and the stored objection sets of every request of every pair
\* equal what that init recorded.
C6_OnlyInitWritesBaseline ==
    recorded # None =>
        /\ stateFile.kind = "json"
        /\ Stored.files = recorded[1].files
        /\ Stored.pairs = recorded[1].pairs

\* A snapshot has run after an init and a diff, with a fingerprinted file and a
\* matrix both changed since the init.
C6_Witness ==
    /\ recorded # None
    /\ out.cmd = "snapshot"
    /\ \E k \in 1..Len(Stored.history) : Stored.history[k].action = "diff"
    /\ FileChanges(Stored, fs) # <<>>
    /\ \E i \in 1..Len(Stored.pairs) :
          Exists(fs, Stored.pairs[i].v.matrix)
          /\ BaselineRequests(CurrentMatrix(Stored.pairs[i].v)) # Stored.pairs[i].v.requests

\* C7: an init that directly follows an init, no file changed in between,
\* stores the same pairs, the same objection sets for every request and the
\* same file fingerprints as the first.
C7_InitIdempotent ==
    [][(out.cmd = "init" /\ out'.cmd = "init") =>
          /\ StoredAfter.pairs = Stored.pairs
          /\ StoredAfter.files = Stored.files]_vars

\* An init has stored a baseline of two pairs, from which it can run again.
C7_Witness ==
    /\ out.cmd = "init"
    /\ Len(Stored.pairs) = 2
    /\ \A i \in 1..2 : Stored.pairs[i].v.requests # <<>>

\* C8: when the matrix file of a baselined pair has been deleted, check and
\* diff each name that pair as broken, and each still reports the change
\* records of every pair whose matrix file exists.
C8_BrokenPairReported ==
    Compared =>
        \A i \in 1..Len(Stored.pairs) :
            LET p == Stored.pairs[i].v IN
            IF ~Exists(fs, p.matrix)
            THEN p.matrix \in SeqToSet(out.missing)
            ELSE \A k \in 1..Len(CurrentMatrix(p)) :
                    LET r == CurrentMatrix(p)[k].k IN
                    CurrentObjs(CurrentMatrix(p), r) # StoredObjs(p.requests, r) =>
                        RecordsFor(p.type, r) # {}

\* The edit entries the pattern of apply finds in the package.
Parsed == ParseEdits(package[1])

Unfilled(m) == m.prose = DraftHere \/ m.prose = <<>>

Accepted == SelectSeq(Parsed, LAMBDA m : ~Unfilled(m))

\* C9: apply discards every parsed entry whose prose is "[DRAFT HERE]" or
\* empty and appends one apply record whose count and entry list are exactly
\* the entries that remain; when none remains the stored baseline, history
\* included, is left as it was.
C9_ApplyKeepsFilledEntries ==
    [][(out'.cmd = "apply" /\ package # None) =>
          /\ out'.applied = Accepted
          /\ IF Accepted = <<>>
             THEN stateFile' = stateFile
             ELSE /\ StoredAfter.history =
                        Append(Stored.history,
                               [action |-> "apply",
                                applied_count |-> Len(Accepted),
                                edits |-> [i \in 1..Len(Accepted) |->
                                              [type |-> Accepted[i].type,
                                               request |-> Accepted[i].request]]])
                  /\ StoredAfter.files = Stored.files
                  /\ StoredAfter.pairs = Stored.pairs]_vars

\* An apply has read a package in which one entry was drafted and another was
\* left as the placeholder.
C9_Witness ==
    /\ out.cmd = "apply"
    /\ package # None
    /\ Accepted # <<>>
    /\ \E i \in 1..Len(Parsed) : Parsed[i].prose = DraftHere
    /\ Stored.history[Len(Stored.history)].action = "apply"
    /\ Stored.history[Len(Stored.history)].applied_count = Len(Accepted)

\* C10: a command that finds objection_state.json unreadable does not go on
\* with an empty baseline in its place.
C10_UnreadableNotEmpty ==
    out.disk = "corrupt" => out.baseline # "empty"

-----------------------------------------------------------------------------
(* Properties of the parsers *)

Ran(kind) == arg.kind = kind /\ res # None

\* C11: two headers whose trimmed, lower-cased forms are equal are classified
\* alike by both scripts, whether they are known aliases, request or notes
\* headers, or unrecognized.
C11_SameFoldedHeaderSameClass ==
    (Ran("headers") /\ Lower(Strip(arg.val[1])) = Lower(Strip(arg.val[2]))) =>
        /\ res[1].gen[1] = res[1].gen[2]
        /\ res[1].sync[1] = res[1].sync[2]

\* The trimmed text after the first semicolon of a cell.
AfterSemicolon(cell) == Strip(SubSeq(cell, IndexOf(cell, ";") + 1, Len(cell)))

\* What C12 expects of a cell with a semicolon.
SemicolonReading(cell) ==
    [use |-> TRUE,
     notes |-> IF AfterSemicolon(cell) # <<>> THEN Some(AfterSemicolon(cell)) ELSE None]

\* C12: for a cell that contains a semicolon both scripts return applies =
\* true with the trimmed text after the first semicolon as annotation, and no
\* annotation when that text is empty, as for the cell ";".
C12_SemicolonCell ==
    (Ran("cell") /\ Contains(arg.val, ";")) =>
        /\ res[1].gen = SemicolonReading(arg.val)
        /\ res[1].sync = SemicolonReading(arg.val)

\* What C13 expects of a cell without a semicolon.
PlainReading(cell) ==
    IF Strip(cell) = <<>> THEN [use |-> FALSE, notes |-> None]
    ELSE IF \E t \in AffirmativeTokens : Upper(Strip(cell)) = t
         THEN [use |-> TRUE, notes |-> None]
         ELSE [use |-> TRUE, notes |-> Some(Strip(cell))]

\* C13: for a cell without a semicolon both scripts return (false, none) when
\* it is empty or white space only, (true, none) when its trimmed value is X,
\* YES, Y, 1 or TRUE in any letter case, and (true, trimmed value) otherwise.
\* An absent cell reads as the empty one.
C13_PlainCell ==
    (Ran("cell") /\ ~Contains(arg.val, ";")) =>
        /\ res[1].gen = PlainReading(arg.val)
        /\ res[1].sync = PlainReading(arg.val)

\* A padded marker in mixed case has been read.
C13_Witness ==
    /\ Ran("cell")
    /\ ~Contains(arg.val, ";")
    /\ Strip(arg.val) # arg.val
    /\ Strip(arg.val) \notin AffirmativeTokens
    /\ Upper(Strip(arg.val)) \in AffirmativeTokens
    /\ res[1].sync = [use |-> TRUE, notes |-> None]

\* The table a load was given, and the positions of its headers by role.
Hs == arg.val.headers
Rs == arg.val.rows
RequestIdx == {j \in 1..Len(Hs) : IsRequestColumn(Hs[j])}
NotesIdx == {j \in 1..Len(Hs) : ~IsRequestColumn(Hs[j]) /\ IsNotesColumn(Hs[j])}
Least(S) == CHOOSE j \in S : \A x \in S : j <= x

\* No two columns of the table carry the same header text.
DistinctHeaders == \A j, j2 \in 1..Len(Hs) : Hs[j] = Hs[j2] => j = j2

\* Neither request nor notes header, nor a known alias.
Unrecognized(h) ==
    /\ ~IsRequestColumn(h)
    /\ ~IsNotesColumn(h)
    /\ ~DictHas(AliasToCanonical, Lower(Strip(h)))

\* The data rows whose trimmed cell in column req is not empty, in file order.
KeptRows(req) == SelectSeq(Rs, LAMBDA r : Strip(r[req]) # <<>>)

\* C14: a column whose header is no known alias and neither a request nor a
\* notes header contributes no objection to any row, in either script.  Stated
\* for tables with pairwise distinct headers.
C14_UnrecognizedColumnIgnored ==
    (Ran("matrix") /\ DistinctHeaders) =>
        \A j \in 1..Len(Hs) :
            Unrecognized(Hs[j]) =>
                /\ \A i \in 1..Len(res[1].gen.rows) :
                      \A o \in SeqToSet(res[1].gen.rows[i].objections) : o.name # Hs[j]
                /\ \A i \in 1..Len(res[1].sync.result) :
                      \A o \in SeqToSet(res[1].sync.result[i].v.objections) : o.name # Hs[j]

\* C15: when several headers are classified as notes columns, every row's free
\* notes are the trimmed cell of the first of them in header order.  Stated
\* for tables with pairwise distinct headers and one request column.
C15_FirstNotesColumnWins ==
    (Ran("matrix") /\ DistinctHeaders
     /\ Cardinality(NotesIdx) > 1 /\ Cardinality(RequestIdx) = 1) =>
        LET req == Least(RequestIdx)
            first == Least(NotesIdx)
            kept == KeptRows(req)
        IN /\ Len(res[1].gen.rows) = Len(kept)
           /\ \A i \in 1..Len(kept) :
                 /\ res[1].gen.rows[i].notes_col = Strip(kept[i][first])
                 /\ (\A i2 \in 1..Len(kept) : i2 # i => Strip(kept[i2][req]) # Strip(kept[i][req]))
                       => DictGet(res[1].sync.result, Strip(kept[i][req])).notes
                            = Strip(kept[i][first])

\* C16: the load fails, with an error its caller sees, whenever the number of
\* headers classified as request column is not exactly one, and returns rows
\* when it is one.  Stated for tables with pairwise distinct headers.
C16_ExactlyOneRequestColumn ==
    (Ran("matrix") /\ DistinctHeaders) =>
        /\ res[1].gen.raised = (Cardinality(RequestIdx) # 1)
        /\ res[1].sync.raised = (Cardinality(RequestIdx) # 1)

\* The objections C17 expects for a data row: the objection columns whose cell
\* applies, in header order, each with the annotation of its cell.
ExpectedObjections(row) ==
    LET js == SelectSeq([j \in 1..Len(Hs) |-> j], LAMBDA j :
                  GenColumnRole(Hs[j]).role = "objection" /\ GenParseMatrixCell(row[j]).use)
    IN [i \in 1..Len(js) |->
           [name |-> GenColumnRole(Hs[js[i]]).name[1],
            notes |-> GenParseMatrixCell(row[js[i]]).notes]]

\* The loader of generate_prompt_packages returned one row per data row with a
\* request identifier, in file order, each with its trimmed identifier, the
\* expected objections and the trimmed cell of a notes column.
RowsAsExpected ==
    LET req == Least(RequestIdx)
        kept == KeptRows(req)
        rows == res[1].gen.rows
    IN /\ ~res[1].gen.raised
       /\ Len(rows) = Len(kept)
       /\ \A i \in 1..Len(kept) :
             /\ rows[i].request = Strip(kept[i][req])
             /\ rows[i].objections = ExpectedObjections(kept[i])
             /\ IF NotesIdx = {} THEN rows[i].notes_col = <<>>
                ELSE \E j \in NotesIdx : rows[i].notes_col = Strip(kept[i][j])

\* C17 as stated: for a table with one request column the loader emits one row
\* per data row whose trimmed identifier is not empty, in file order, with the
\* objection columns whose cell applies, in header order, each paired with the
\* annotation of its cell, and the trimmed notes cell.
C17_OneRowPerRequest ==
    (Ran("matrix") /\ Cardinality(RequestIdx) = 1) => RowsAsExpected

\* C17, amended: the same, for a table whose header texts are pairwise
\* distinct.  Of two columns with the same header the row keeps only the later
\* cell, which is then read for both.
C17_OneRowPerRequestDistinctHeaders ==
    (Ran("matrix") /\ Cardinality(RequestIdx) = 1 /\ DistinctHeaders) => RowsAsExpected

\* A table of two data rows, one without identifier, has been loaded into one
\* row with an annotated objection and notes.
C17_Witness ==
    /\ Ran("matrix")
    /\ Cardinality(RequestIdx) = 1
    /\ DistinctHeaders
    /\ Len(Rs) = 2
    /\ Len(res[1].gen.rows) = 1
    /\ \E o \in SeqToSet(res[1].gen.rows[1].objections) : o.notes # None
    /\ res[1].gen.rows[1].notes_col # <<>>

\* What each recognizer finds on a document, in the order they are tried:
\* Form Interrogatory, Request for Admission, Request for Production,
\* (Special) Interrogatory, bare decimal.
Recognizers(doc) ==
    << FormRequests(doc, 1, <<>>),
       NumberedRequests(doc, {"RFA"}, 1, <<>>),
       NumberedRequests(doc, {"RPD", "RPDD"}, 1, <<>>),
       NumberedRequests(doc, {"SROG", "ROG", "FROG"}, 1, <<>>),
       BareRequests(doc, 1, <<>>) >>

Hits(doc) == {i \in 1..Len(Recognizers(doc)) : Recognizers(doc)[i] # <<>>}

\* C18: the extractor returns what the first recognizer that finds a request
\* returns, nothing of a later one, and nothing only when none finds any.
C18_FirstRecognizerWins ==
    Ran("document") =>
        IF Hits(arg.val) = {} THEN res[1] = <<>>
        ELSE res[1] = Recognizers(arg.val)[Least(Hits(arg.val))]

\* A document on which two recognizers find different requests has been read.
C18_Witness ==
    /\ Ran("document")
    /\ \E i, j \in Hits(arg.val) :
          /\ i < j
          /\ i = Least(Hits(arg.val))
          /\ Recognizers(arg.val)[j] # Recognizers(arg.val)[i]
          /\ res[1] = Recognizers(arg.val)[i]

\* The document is a sequence of blocks "REQUEST FOR ADMISSION NO. n: body"
\* with distinct numbers.
AdmissionBlocks(doc) ==
    /\ doc[1].k = "RFA"
    /\ \A i \in 1..Len(doc) :
          \/ doc[i].k = "TEXT"
          \/ doc[i].k = "RFA" /\ IsDigits(doc[i].n) /\ doc[i].sep = <<":", " ">>
    /\ \A i, j \in 1..Len(doc) :
          (doc[i].k = "RFA" /\ doc[j].k = "RFA" /\ doc[i].n = doc[j].n) => i = j

\* The headings of the blocks, in order, and the text between a heading and
\* the next one.
BlockStarts(doc) == SelectSeq([i \in 1..Len(doc) |-> i], LAMBDA i : doc[i].k = "RFA")

RECURSIVE BodyFrom(_, _)
BodyFrom(doc, i) ==
    IF i > Len(doc) \/ doc[i].k # "TEXT" THEN <<>>
    ELSE doc[i].txt \o BodyFrom(doc, i + 1)

\* C19 as stated: a document of such blocks yields one entry per block, keyed
\* by its number, whose value is the trimmed body.
C19_AdmissionBlocks ==
    (Ran("document") /\ AdmissionBlocks(arg.val)) =>
        res[1] = [b \in 1..Len(BlockStarts(arg.val)) |->
                     [k |-> arg.val[BlockStarts(arg.val)[b]].n,
                      v |-> Strip(BodyFrom(arg.val, BlockStarts(arg.val)[b] + 1))]]

\* C19, amended: one entry per block, keyed by its number, whose value is the
\* body without the colons and white space it begins with and without the
\* white space it ends with.
C19_AdmissionBlocksColonsDropped ==
    (Ran("document") /\ AdmissionBlocks(arg.val)) =>
        res[1] = [b \in 1..Len(BlockStarts(arg.val)) |->
                     [k |-> arg.val[BlockStarts(arg.val)[b]].n,
                      v |-> RStrip(LStripIn(BodyFrom(arg.val, BlockStarts(arg.val)[b] + 1),
                                            ColonSpace))]]

\* Two blocks have been read whose bodies begin with no colon and end in a
\* line break, which the entries have lost.
C19_Witness ==
    /\ Ran("document")
    /\ AdmissionBlocks(arg.val)
    /\ Len(res[1]) = 2
    /\ \A b \in 1..2 :
          LET body == BodyFrom(arg.val, BlockStarts(arg.val)[b] + 1) IN
          /\ body # <<>>
          /\ Head(body) # ":"
          /\ res[1][b].v = Strip(body)
          /\ res[1][b].v # body

\* The document is one paragraph that starts a line with a decimal number.
BareParagraph(doc) ==
    /\ BareStart(doc, 1)
    /\ \A i \in 2..Len(doc) : doc[i].k = "TEXT"

\* C20: the bare-decimal recognizer accepts a numbered paragraph exactly when
\* its trimmed body has at least 20 characters.
C20_TwentyCharactersAccepted ==
    (Ran("document") /\ BareParagraph(arg.val)) =>
        (DictHas(res[1], arg.val[1].n) <=> Len(Strip(BodyFrom(arg.val, 2))) >= 20)

-----------------------------------------------------------------------------
(* Properties of the commands, continued *)

\* The matrix of a recorded pair as it was when init fingerprinted it.
MatrixAtInit(pair_data) == DictGet(recorded[1].files, pair_data.matrix).hash[1]

\* Two spreadsheets with the same cells whose headers, column by column, are
\* the same request or notes column or name the same category.
SameUnderAliases(a, b) ==
    /\ a.rows = b.rows
    /\ Len(a.headers) = Len(b.headers)
    /\ \A i \in 1..Len(a.headers) :
          \/ a.headers[i] = b.headers[i]
          \/ /\ ~IsRequestColumn(a.headers[i]) /\ ~IsRequestColumn(b.headers[i])
             /\ ~IsNotesColumn(a.headers[i]) /\ ~IsNotesColumn(b.headers[i])
             /\ NormalizeColumnName(a.headers[i]) # None
             /\ NormalizeColumnName(a.headers[i]) = NormalizeColumnName(b.headers[i])

\* C21: when every matrix differs from what init read at most in headers
\* respelled as another alias of the same category, check and diff report no
\* change record.
C21_AliasRenameIsNoChange ==
    (Compared /\ recorded # None
       /\ \A i \in 1..Len(recorded[1].pairs) :
             /\ Exists(fs, recorded[1].pairs[i].v.matrix)
             /\ SameUnderAliases(MatrixAtInit(recorded[1].pairs[i].v),
                                 Content(fs, recorded[1].pairs[i].v.matrix)))
    => out.changes = <<>>

\* C22: check and diff each report as drifted exactly the files recorded in
\* the baseline whose current fingerprint differs from the recorded one, a
\* deleted file included, and none when no file changed.
C22_FileDriftReported ==
    Compared => out.fileChanges = FileChanges(Stored, fs)

\* What a list of change records says of each request: its added set, its
\* removed set and its label.
ChangeSet(changes) ==
    [i \in 1..Len(changes) |->
        [type |-> changes[i].type,
         request |-> changes[i].request,
         added |-> changes[i].added,
         removed |-> changes[i].removed,
         action |-> changes[i].action]]

\* C25: on every stored baseline and every state of the matrix files, check
\* and diff compute the same change set, and whichever of them ran last
\* reported it.
C25_CheckAndDiffAgree ==
    /\ Stored.pairs # <<>> =>
          ChangeSet(CheckChanges(Stored, fs)) = ChangeSet(DiffChanges(Stored, fs))
    /\ Compared =>
          /\ ChangeSet(out.changes) = ChangeSet(CheckChanges(Stored, fs))
          /\ ChangeSet(out.changes) = ChangeSet(DiffChanges(Stored, fs))

\* A check or a diff has reported an augmented and a rewritten request at once.
C25_Witness ==
    /\ Compared
    /\ \E c, d \in SeqToSet(out.changes) :
          /\ c.action = "AUGMENT" /\ c.added # {}
          /\ d.action = "REWRITE" /\ d.removed # {}

\* The entries of the edits document whose placeholder was replaced by prose.
Drafted(entries) ==
    SelectSeq(entries, LAMBDA e : Strip(e.prose) # DraftHere /\ Strip(e.prose) # <<>>)

\* C26: on the edits document diff generated, whatever the identifiers and
\* discovery types of the changed requests, apply accepts exactly the entries
\* whose placeholder was replaced by non-empty prose, and with none replaced
\* it accepts none and leaves the stored baseline as it was.
C26_DiffApplyRoundTrip ==
    [][(out'.cmd = "apply" /\ package # None) =>
          /\ [i \in 1..Len(out'.applied) |->
                 [type |-> out'.applied[i].type, request |-> out'.applied[i].request]]
             = [i \in 1..Len(Drafted(package[1])) |->
                 [type |-> Drafted(package[1])[i].type,
                  request |-> Drafted(package[1])[i].request]]
          /\ Drafted(package[1]) = <<>> => stateFile' = stateFile]_vars

\* A document without pairs and fingerprints whose history is one record of
\* the given action.
FreshWith(sf, action) ==
    /\ sf.kind = "json"
    /\ LoadState(sf).pairs = <<>>
    /\ LoadState(sf).files = <<>>
    /\ Len(LoadState(sf).history) = 1
    /\ LoadState(sf).history[1].action = action

\* C24: on an unparseable objection_state.json, check and diff report that no
\* baseline exists and write nothing; snapshot, and apply with at least one
\* accepted entry, replace the file by a document without pairs and
\* fingerprints whose history is that action's record alone; apply with no
\* accepted entry leaves the file as it is, and status and history find
\* nothing stored.
C24_CorruptReadAsEmpty ==
    [][(stateFile.kind = "corrupt" /\ out'.cmd # "none") =>
          CASE out'.cmd \in {"check", "diff"} ->
                  /\ out'.noBaseline
                  /\ out'.baseline = "empty"
                  /\ stateFile' = stateFile
                  /\ package' = package
            [] out'.cmd = "snapshot" -> FreshWith(stateFile', "snapshot")
            [] out'.cmd = "apply" /\ package # None ->
                  IF Accepted # <<>>
                  THEN FreshWith(stateFile', "apply")
                       /\ StoredAfter.history[1].applied_count = Len(Accepted)
                  ELSE stateFile' = stateFile
            [] out'.cmd = "status" -> out'.noBaseline /\ stateFile' = stateFile
            [] out'.cmd = "history" -> out'.count = 0 /\ stateFile' = stateFile
            [] OTHER -> TRUE]_vars

\* An apply has accepted a drafted entry on an unparseable file and left a
\* fresh document behind.
C24_Witness ==
    /\ out.cmd = "apply"
    /\ out.disk = "corrupt"
    /\ out.applied # <<>>
    /\ FreshWith(stateFile, "apply")

-----------------------------------------------------------------------------
(* Properties of invocations side by side *)

\* C23: what an invocation saves is the document it loaded with its own
\* record appended, whatever is stored by then; when the stored document has
\* gained records since the invocation loaded it, those records are dropped:
\* the history stored afterwards is no longer than the one it replaces.
C23_LastWriterWins ==
    [][\A p \in Procs :
          (procs[p].pc = "loaded" /\ procs'[p].pc = "done") =>
              /\ stateFile'.kind = "json"
              /\ StoredAfter.pairs = procs[p].state.pairs
              /\ StoredAfter.files = procs[p].state.files
              /\ Len(StoredAfter.history) = Len(procs[p].state.history) + 1
              /\ IsPrefix(procs[p].state.history, StoredAfter.history)
              /\ StoredAfter.history[Len(StoredAfter.history)].action = procs[p].cmd
              /\ (IsPrefix(procs[p].state.history, Stored.history)
                    /\ Stored.history # procs[p].state.history) =>
                    Len(StoredAfter.history) <= Len(Stored.history)]_vars

\* A diff and a snapshot have both loaded the same document and both saved,
\* the snapshot last: the stored history holds one record more than they
\* loaded, the snapshot's, and no record of the diff.
C23_Witness ==
    /\ procs[1].pc = "done" /\ procs[1].cmd = "diff"
    /\ procs[2].pc = "done" /\ procs[2].cmd = "snapshot"
    /\ procs[1].state = procs[2].state
    /\ package # None
    /\ Len(Stored.history) = Len(procs[1].state.history) + 1
    /\ Stored.history[Len(Stored.history)].action = "snapshot"
    /\ \A k \in 1..Len(Stored.history) : Stored.history[k].action # "diff"

====
